---- MODULE Spec2Model ----
(***************************************************************************)
(* Argos Data Sentinel: rule-template rendering, SQL compilation of a     *)
(* Suite, the BigQuery executor and the SentinelRunner orchestration.     *)
(*                                                                         *)
(* Text is a sequence of tokens.  A lit token is text without Jinja       *)
(* markers, a var token is the text of a plain placeholder of one name,   *)
(* a join token is the text of a placeholder of one name piped through    *)
(* the join filter.  The SQL builder's own fragments (base, cte, sel,     *)
(* sep, union, note, close) are marker-free text that carries the         *)
(* identifier it was formatted with.                                      *)
(***************************************************************************)
EXTENDS Integers, Sequences, FiniteSets, TLC

\* Largest number of Checks in a Suite handed to the builder or the runner.
MaxChecks == 2

\* Largest number of rows handed to the result parser.
MaxRows == 2

-----------------------------------------------------------------------------
\* Python values that occur as parameter values.

PyNone == [t |-> "none", s |-> "None"]
PyZero == [t |-> "int", s |-> "0"]
PyFalse == [t |-> "bool", s |-> "False"]
PyEmptyStr == [t |-> "str", s |-> ""]
PyStr(x) == [t |-> "str", s |-> x]
PyInt(x) == [t |-> "int", s |-> x]
PyList(x) == [t |-> "list", s |-> x]
\* The str "{{ name }}": a value that itself carries placeholder markers.
PyMarkerStr(name) == [t |-> "tmpl", s |-> name]

\* Python truthiness, as used by `not params.get(p)`.
Truthy(v) ==
    CASE v.t = "none" -> FALSE
      [] v.t = "int" -> v.s # "0"
      [] v.t = "bool" -> v.s # "False"
      [] v.t \in {"str", "list"} -> v.s # ""
      [] OTHER -> TRUE

EmptyMap == [x \in {} |-> PyNone]

\* dict.get(p): the value, or None when the key is absent.
Get(params, p) == IF p \in DOMAIN params THEN params[p] ELSE PyNone

\* {**a, **b}: the keys of both, b winning on a collision.
Merge(a, b) ==
    [k \in (DOMAIN a) \cup (DOMAIN b) |-> IF k \in DOMAIN b THEN b[k] ELSE a[k]]

\* An Optional[Dict]: None, or a mapping.
NoneMap == [some |-> FALSE, map |-> EmptyMap]
SomeMap(m) == [some |-> TRUE, map |-> m]
\* `d or {}`
OrEmpty(d) == IF d.some THEN d.map ELSE EmptyMap

-----------------------------------------------------------------------------
\* Text tokens.

Lit(s) == [k |-> "lit", v |-> s]
Var(n) == [k |-> "var", v |-> n]
Join(n) == [k |-> "join", v |-> n]

\* str(value), as Jinja prints an expression's value.
StrTokens(v) ==
    CASE v.t = "tmpl" -> <<Var(v.s)>>
      [] v.t = "list" -> <<[k |-> "repr", v |-> v.s]>>
      [] v.t = "str" /\ v.s = "" -> <<>>
      [] OTHER -> <<Lit(v.s)>>

Iterable(v) == v.t \in {"list", "str", "tmpl"}

\* value | join(', '): the items of a list, or the characters of a str,
\* separated by ", " (so a str's "{{" does not survive as a marker).
JoinTokens(v) ==
    CASE v.t = "list" /\ v.s # "" -> <<Lit(v.s)>>
      [] v.t = "str" /\ v.s # "" -> <<[k |-> "chars", v |-> v.s]>>
      [] v.t = "tmpl" -> <<[k |-> "chars", v |-> v.s]>>
      [] OTHER -> <<>>

\* The exception one expression raises when rendered, "" for none.
\* StrictUndefined fails on any use of an undefined name; DebugUndefined
\* prints itself as "{{ name }}" and iterates as an empty sequence.
TokenExc(tok, params, keep) ==
    CASE tok.k = "var" ->
           IF tok.v \in DOMAIN params \/ keep THEN "" ELSE "UndefinedError"
      [] tok.k = "join" ->
           IF tok.v \in DOMAIN params
           THEN IF Iterable(params[tok.v]) THEN "" ELSE "TypeError: object is not iterable"
           ELSE IF keep THEN "" ELSE "UndefinedError"
      [] OTHER -> ""

\* What one token of a template renders to.
ExpandToken(tok, params, keep) ==
    CASE tok.k = "var" ->
           IF tok.v \in DOMAIN params THEN StrTokens(params[tok.v]) ELSE <<tok>>
      [] tok.k = "join" ->
           IF tok.v \in DOMAIN params THEN JoinTokens(params[tok.v]) ELSE <<>>
      [] OTHER -> <<tok>>

RECURSIVE RenderTokens(_, _, _)
RenderTokens(text, params, keep) ==
    IF text = <<>> THEN <<>>
    ELSE ExpandToken(Head(text), params, keep)
           \o RenderTokens(Tail(text), params, keep)

\* StringHelper.render_jinja_template: the rendered text, or the exception
\* of the first expression that fails.
render_jinja_template(value, params, keep_undefined_as_is) ==
    LET p == OrEmpty(params)
        bad == {i \in 1..Len(value) : TokenExc(value[i], p, keep_undefined_as_is) # ""}
        first == CHOOSE i \in bad : \A j \in bad : i <= j
    IN  IF bad # {}
        THEN [exc |-> TokenExc(value[first], p, keep_undefined_as_is),
              text |-> <<>>, missing |-> <<>>]
        ELSE [exc |-> "", text |-> RenderTokens(value, p, keep_undefined_as_is),
              missing |-> <<>>]

\* `"{{" in text or "}}" in text`
HasMarkers(text) == \E i \in 1..Len(text) : text[i].k \in {"var", "join"}

-----------------------------------------------------------------------------
\* Rule templates: the class attributes name, sql_template, required_params
\* and the instance's default params.

Template(n, body, req, defaults) ==
    [name |-> n, sql_template |-> body, required_params |-> req,
     params |-> defaults, bound |-> TRUE]

\* Check.rule_template = None
NoTemplate ==
    [name |-> "", sql_template |-> <<>>, required_params |-> <<>>,
     params |-> NoneMap, bound |-> FALSE]

\* Every built-in body selects the check's name and a measurement from the
\* Suite's base sub-query.
Body(measure) ==
    <<Lit("SELECT '"), Var("check_name"), Lit("' AS check_name,")>>
      \o measure
      \o <<Lit("AS value FROM cte_"), Var("suite_name"), Lit("_base")>>

RowCountRule ==
    Template("row_count", Body(<<Lit("COUNT( * )")>>), <<>>, SomeMap(EmptyMap))

UniqueRule ==
    Template("unique",
             Body(<<Lit("COUNT( * ) - COUNT(DISTINCT"), Var("column_name"), Lit(")")>>),
             <<"column_name">>, SomeMap(EmptyMap))

ValueRangeBody ==
    Body(<<Lit("COUNTIF("), Var("column_name"), Lit("<"), Var("lower_bound"),
           Lit("OR"), Var("column_name"), Lit(">"), Var("upper_bound"), Lit(")")>>)

ValueRangeRule(lower_bound, upper_bound) ==
    Template("value_range", ValueRangeBody,
             <<"column_name", "lower_bound", "upper_bound">>,
             SomeMap(("upper_bound" :> upper_bound) @@ ("lower_bound" :> lower_bound)))

AcceptedValuesBody ==
    Body(<<Lit("COUNTIF("), Var("column_name"), Lit("NOT IN ("),
           Join("accepted_values"), Lit("))")>>)

AcceptedValuesRule(accepted_values) ==
    Template("accepted_values", AcceptedValuesBody,
             <<"column_name", "accepted_values">>,
             SomeMap("accepted_values" :> accepted_values))

GreaterThanBody ==
    Body(<<Lit("COUNTIF("), Var("column_name"), Lit("> ("),
           Var("lower_limit_value"), Lit("))")>>)

GreaterThan ==
    Template("greater_than", GreaterThanBody,
             <<"column_name", "lower_limit_value">>, SomeMap(EmptyMap))

\* A template instance constructed with params=defaults.
WithParams(template, defaults) == [template EXCEPT !.params = SomeMap(defaults)]

RuleParameterError(missing_params) ==
    [exc |-> "RuleParameterError", text |-> <<>>, missing |-> missing_params]

\* RuleTemplateBase._validate_required_params: the required names whose
\* merged value is falsy, in the order of required_params.
MissingParams(required_params, params) ==
    SelectSeq(required_params, LAMBDA p : ~Truthy(Get(params, p)))

\* RuleTemplateBase.render: [exc, text, missing]; exc = "" on success.
render(self, extra_params) ==
    LET combined_params == Merge(OrEmpty(self.params), OrEmpty(extra_params))
        missing_params == MissingParams(self.required_params, combined_params)
        rendered == render_jinja_template(self.sql_template,
                                          SomeMap(combined_params), TRUE)
    IN  IF missing_params # <<>> THEN RuleParameterError(missing_params)
        ELSE IF rendered.exc # "" THEN rendered
        ELSE IF HasMarkers(rendered.text)
             THEN RuleParameterError(<<"unresolved Jinja variables">>)
        ELSE rendered

-----------------------------------------------------------------------------
\* The data model: DataSource, Check, Suite.

\* An Optional[str]: None, or text.
NoneText == [some |-> FALSE, text |-> <<>>]
SomeText(t) == [some |-> TRUE, text |-> t]
\* An f-string's formatting of an Optional[str]: None prints as "None".
Format(opt) == IF opt.some THEN opt.text ELSE <<Lit("None")>>

DataSource(type, table, query) == [type |-> type, table |-> table, query |-> query]

\* An Optional[float]: None, a number (scaled to an integer), or NaN.
FNone == [t |-> "none", n |-> 0]
Float(n) == [t |-> "float", n |-> n]
NaN == [t |-> "nan", n |-> 0]

\* Python's a < b and a > b on floats: False when either side is NaN.
Lt(a, b) == a.t = "float" /\ b.t = "float" /\ a.n < b.n
Gt(a, b) == a.t = "float" /\ b.t = "float" /\ a.n > b.n

\* Threshold.__init__: the value shorthand sets both bounds.
Threshold(value, lower, upper) ==
    IF value # FNone
    THEN [some |-> TRUE, lower |-> value, upper |-> value]
    ELSE [some |-> TRUE, lower |-> lower, upper |-> upper]

\* Check.threshold = None
NoThreshold == [some |-> FALSE, lower |-> FNone, upper |-> FNone]

\* is_within with bounds that exclude their own value.
is_within_Exclusive(self, val) ==
    IF self.lower = FNone /\ self.upper = FNone THEN TRUE
    ELSE IF self.lower # FNone /\ ~Gt(val, self.lower) THEN FALSE
    ELSE IF self.upper # FNone /\ ~Lt(val, self.upper) THEN FALSE
    ELSE TRUE

\* Threshold.is_within
is_within(self, val) ==
    IF self.lower = FNone /\ self.upper = FNone THEN TRUE
    ELSE IF self.lower # FNone /\ Lt(val, self.lower) THEN FALSE
    ELSE IF self.upper # FNone /\ Gt(val, self.upper) THEN FALSE
    ELSE TRUE

\* `x or default` as an f-string prints it: None and 0.0 are falsy.
OrInfinity(x) ==
    IF x = FNone \/ x = Float(0) THEN [t |-> "inf", n |-> 0] ELSE x

\* Threshold.describe
describe(self) ==
    IF self.lower = self.upper
    THEN [kind |-> "threshold", lower |-> self.lower, upper |-> self.lower]
    ELSE [kind |-> "range", lower |-> OrInfinity(self.lower),
          upper |-> OrInfinity(self.upper)]

\* A Check as constructed with these five fields; severity and threshold
\* keep their defaults.
Check(name, description, rule_template, column_name, params) ==
    [name |-> name, description |-> description, rule_template |-> rule_template,
     column_name |-> column_name, params |-> params,
     severity |-> "ERROR", threshold |-> NoThreshold]

\* The Check constructed with severity and threshold handed as well.
WithThreshold(check, severity, threshold) ==
    [check EXCEPT !.severity = severity, !.threshold = threshold]

Suite(name, data_source, params, checks) ==
    [name |-> name, data_source |-> data_source, params |-> params,
     checks |-> checks]

-----------------------------------------------------------------------------
\* SQLBuilder.

Raise(e) == [exc |-> e, text |-> <<>>, missing |-> <<>>]
Return(t) == [exc |-> "", text |-> t, missing |-> <<>>]

\* "WITH cte_<suite>_base AS (", "cte_<check> AS (", ")",
\* "SELECT * FROM cte_<check>", ", " and "UNION ALL".
BaseOpen(suite_name) == [k |-> "base", v |-> suite_name]
CteOpen(check_name) == [k |-> "cte", v |-> check_name]
Close == [k |-> "close", v |-> ")"]
SelectFrom(check_name) == [k |-> "sel", v |-> check_name]
Comma == [k |-> "sep", v |-> ", "]
UnionAll == [k |-> "union", v |-> "UNION ALL"]
Note(text) == [k |-> "note", v |-> text]

\* The identifier an opening token stands for: cte_<suite.name>_base for the
\* base sub-query, cte_<check.name> for a Check's.
Identifier(tok) ==
    IF tok.k = "base" THEN "cte_" \o tok.v \o "_base" ELSE "cte_" \o tok.v

\* _build_base_cte that wraps the query whenever one is handed, whatever the
\* type says.
_build_base_cte_QueryIfGiven(suite) ==
    LET sql_body ==
          IF ~suite.data_source.query.some
          THEN <<Note("-- Base CTE (Data Source Type > TABLE)"), BaseOpen(suite.name),
                 Lit("SELECT * FROM")>>
                 \o Format(suite.data_source.table) \o <<Close>>
          ELSE <<Note("-- Base CTE (Data Source Type > QUERY)"), BaseOpen(suite.name)>>
                 \o Format(suite.data_source.query) \o <<Close>>
    IN  render_jinja_template(sql_body, SomeMap(OrEmpty(suite.params)), FALSE)

\* SQLBuilder._build_base_cte
_build_base_cte(suite) ==
    LET sql_body ==
          IF suite.data_source.type = "TABLE"
          THEN <<Note("-- Base CTE (Data Source Type > TABLE)"), BaseOpen(suite.name),
                 Lit("SELECT * FROM")>>
                 \o Format(suite.data_source.table) \o <<Close>>
          ELSE <<Note("-- Base CTE (Data Source Type > QUERY)"), BaseOpen(suite.name)>>
                 \o Format(suite.data_source.query) \o <<Close>>
    IN  render_jinja_template(sql_body, SomeMap(OrEmpty(suite.params)), FALSE)

\* The extra_params with the two halves of the dict display swapped: an
\* entry of the Check's params wins over the identity field of its name.
CheckExtraParams_ParamsWin(suite, check) ==
    Merge(("check_name" :> PyStr(check.name))
            @@ ("suite_name" :> PyStr(suite.name))
            @@ ("column_name" :> check.column_name),
          check.params.map)

\* The extra_params _build_check_cte hands to render: the Check's params,
\* then the three identity fields.
CheckExtraParams(suite, check) ==
    Merge(check.params.map,
          ("check_name" :> PyStr(check.name))
            @@ ("suite_name" :> PyStr(suite.name))
            @@ ("column_name" :> check.column_name))

\* "[<description>]" if the description is a non-empty str, else "".
CheckDescription(check) ==
    IF check.description.some /\ check.description.text # <<>>
    THEN <<Lit("[")>> \o check.description.text \o <<Lit("]")>>
    ELSE <<>>

\* _build_check_cte without its guard on a missing rule template.
_build_check_cte_Unguarded(suite, check) ==
    IF ~check.params.some THEN Raise("TypeError: argument after ** must be a mapping")
    ELSE LET sql_body == render(check.rule_template,
                                SomeMap(CheckExtraParams(suite, check)))
         IN  IF sql_body.exc # "" THEN sql_body
             ELSE Return(<<Note("-- Check CTE -"), Lit(check.name)>>
                           \o CheckDescription(check)
                           \o <<CteOpen(check.name)>> \o sql_body.text \o <<Close>>)

\* _build_check_cte that compiles a Check without a rule template to a
\* sub-query with an empty body.
_build_check_cte_Lenient(suite, check) ==
    IF ~check.rule_template.bound
    THEN Return(<<Note("-- Check CTE -"), Lit(check.name), CteOpen(check.name), Close>>)
    ELSE IF ~check.params.some THEN Raise("TypeError: argument after ** must be a mapping")
    ELSE LET sql_body == render(check.rule_template,
                                SomeMap(CheckExtraParams(suite, check)))
         IN  IF sql_body.exc # "" THEN sql_body
             ELSE Return(<<Note("-- Check CTE -"), Lit(check.name)>>
                           \o CheckDescription(check)
                           \o <<CteOpen(check.name)>> \o sql_body.text \o <<Close>>)

\* SQLBuilder._build_check_cte
_build_check_cte(suite, check) ==
    IF ~check.rule_template.bound THEN Raise("ValueError")
    ELSE IF ~check.params.some THEN Raise("TypeError: argument after ** must be a mapping")
    ELSE LET sql_body == render(check.rule_template,
                                SomeMap(CheckExtraParams(suite, check)))
         IN  IF sql_body.exc # "" THEN sql_body
             ELSE Return(<<Note("-- Check CTE -"), Lit(check.name)>>
                           \o CheckDescription(check)
                           \o <<CteOpen(check.name)>> \o sql_body.text \o <<Close>>)

RECURSIVE JoinBlocks(_, _)
\* sep.join(blocks)
JoinBlocks(blocks, sep) ==
    IF blocks = <<>> THEN <<>>
    ELSE IF Len(blocks) = 1 THEN blocks[1]
    ELSE blocks[1] \o <<sep>> \o JoinBlocks(Tail(blocks), sep)

\* SQLBuilder._combine_cte_blocks
_combine_cte_blocks(base_cte, check_ctes) ==
    JoinBlocks(<<base_cte>> \o check_ctes, Comma)

\* The final union built in the reverse of the order of suite.checks.
CheckUnions_Reversed(suite) ==
    JoinBlocks([i \in 1..Len(suite.checks) |->
                   <<SelectFrom(suite.checks[Len(suite.checks) + 1 - i].name)>>],
               UnionAll)

\* The final union: one SELECT per Check, in the order of suite.checks.
CheckUnions(suite) ==
    JoinBlocks([i \in 1..Len(suite.checks) |-> <<SelectFrom(suite.checks[i].name)>>],
               UnionAll)

\* SQLBuilder.build
build(suite) ==
    LET base_sql_block == _build_base_cte(suite)
        check_cte_blocks ==
          [i \in 1..Len(suite.checks) |-> _build_check_cte(suite, suite.checks[i])]
        failed == {i \in 1..Len(suite.checks) : check_cte_blocks[i].exc # ""}
        first == CHOOSE i \in failed : \A j \in failed : i <= j
        raw_sql_body ==
          _combine_cte_blocks(base_sql_block.text,
                              [i \in 1..Len(suite.checks) |-> check_cte_blocks[i].text])
        sql_body == render_jinja_template(raw_sql_body, suite.params, FALSE)
    IN  IF base_sql_block.exc # "" THEN base_sql_block
        ELSE IF failed # {} THEN check_cte_blocks[first]
        ELSE IF sql_body.exc # "" THEN sql_body
        ELSE Return(sql_body.text \o CheckUnions(suite))

-----------------------------------------------------------------------------
\* Executor and SentinelRunner.

\* Binding of a call's keyword arguments to a signature: an unexpected
\* keyword or a missing required parameter is a TypeError.
Binds(parameters, required, keywords) ==
    keywords \subseteq parameters /\ required \subseteq keywords

\* def execute(self, sql_query, flatten_results=False, dry_run_first=True,
\*             dry_run_only=False)
ExecuteParameters == {"sql_query", "flatten_results", "dry_run_first", "dry_run_only"}
ExecuteRequired == {"sql_query"}
\* The keywords run_suite passes to Executor.execute.
RunSuiteExecuteKeywords ==
    {"sql_query", "flatten_results", "validate_first", "validate_only", "extra"}

\* def parse(self, suite, rows)
ParseParameters == {"suite", "rows"}
ParseRequired == {"suite", "rows"}
\* The keywords run_suite passes to ResultParser.parse.
RunSuiteParseKeywords == {"rows"}

\* The metadata dict Executor.execute starts from.  start_time and end_time
\* are keys the dict does not have until an update adds them.
InitialMetadata(dry_run_only) ==
    [job_id |-> "None", duration_ms |-> "None", bytes_processed |-> "None",
     cache_hit |-> "None", dry_run |-> dry_run_only, status |-> "UNKNOWN",
     errors |-> <<>>, start_time |-> "absent", end_time |-> "absent"]

NoMetadata ==
    [job_id |-> "None", duration_ms |-> "None", bytes_processed |-> "None",
     cache_hit |-> "None", dry_run |-> FALSE, status |-> "NONE",
     errors |-> <<>>, start_time |-> "absent", end_time |-> "absent"]

\* The rows a successful job yields.
EngineRows ==
    {<<>>, <<[check_name |-> "a", value |-> 150]>>,
     <<[check_name |-> "a", value |-> 150], [check_name |-> "b", value |-> 0]>>}

\* job.errors of a failed job: None, or the engine's messages.
JobErrors == {<<>>, <<"engine message">>}

NoCall == [state |-> "none", exc |-> "", rows |-> <<>>, metadata |-> NoMetadata]
Returned(rows, metadata) ==
    [state |-> "returned", exc |-> "", rows |-> rows, metadata |-> metadata]
Raised(e) == [state |-> "raised", exc |-> e, rows |-> <<>>, metadata |-> NoMetadata]

\* An except-handler that reports the engine's messages alone.
ExceptHandler_EngineErrorsOnly(job_bound, e, job_errors, metadata) ==
    IF ~job_bound THEN Raised("UnboundLocalError")
    ELSE Returned(<<>>, [metadata EXCEPT !.job_id = "job", !.start_time = "set",
                                         !.end_time = "set", !.status = "FAILED",
                                         !.errors = job_errors])

\* The except-handler of Executor.execute.  It reads the local `job`, which
\* is bound only once client.query has returned: the guarded read of
\* job.errors is swallowed, the read in the metadata update is not.
ExceptHandler(job_bound, e, job_errors, metadata) ==
    IF ~job_bound THEN Raised("UnboundLocalError")
    ELSE Returned(<<>>, [metadata EXCEPT !.job_id = "job", !.start_time = "set",
                                         !.end_time = "set", !.status = "FAILED",
                                         !.errors = <<e>> \o job_errors])

\* What the caller of Executor.execute makes of its return value.  run_suite
\* unpacks it as (metadata, rows), hands rows to ResultParser.parse and
\* returns (metadata, results); a direct caller receives it as it is.
AfterExecute(who, result) ==
    IF who = "run_suite" /\ result.state = "returned"
    THEN IF Binds(ParseParameters, ParseRequired, RunSuiteParseKeywords)
         THEN [state |-> "returned", exc |-> "", rows |-> <<>>, metadata |-> result.rows]
         ELSE Raised("TypeError: missing required argument")
    ELSE result

\* The calls of ResultParser.parse after the caller has handled the return
\* value of Executor.execute.
ParsesAfter(who, result, before) ==
    IF /\ who = "run_suite"
       /\ result.state = "returned"
       /\ Binds(ParseParameters, ParseRequired, RunSuiteParseKeywords)
    THEN Append(before, [rows |-> result.metadata])
    ELSE before

\* Executor.execute as a function of its flags and of the answers the client
\* gives to its calls, in the order of the calls.
execute(dry_run_first, dry_run_only, responses) ==
    LET metadata == InitialMetadata(dry_run_only)
        dry == dry_run_only \/ dry_run_first
        dry_succeeded == [metadata EXCEPT !.job_id = "dry_job", !.bytes_processed = "set",
                                          !.cache_hit = "set", !.status = "DRY_RUN_SUCCESS"]
        dry_failed == [metadata EXCEPT !.status = "DRY_RUN_FAILED",
                                       !.errors = <<"dry run error">>]
        before == IF dry THEN dry_succeeded ELSE metadata
        rest == IF dry THEN Tail(responses) ELSE responses
        succeeded == [before EXCEPT !.job_id = "job", !.start_time = "set",
                                    !.end_time = "set", !.duration_ms = "set",
                                    !.bytes_processed = "set", !.cache_hit = "set",
                                    !.status = "SUCCESS"]
    IN  IF dry /\ ~responses[1].ok THEN Returned(<<>>, dry_failed)
        ELSE IF dry_run_only THEN Returned(<<>>, dry_succeeded)
        ELSE IF ~rest[1].ok THEN ExceptHandler(FALSE, "submit error", <<>>, before)
        ELSE IF ~rest[2].ok
             THEN ExceptHandler(TRUE, "result error", rest[2].errors, before)
        ELSE Returned(rest[2].rows, succeeded)

-----------------------------------------------------------------------------
\* ResultParser.

\* A value of a row's field, as the engine or a caller supplies it: None, a
\* str that is no number, a str that spells a number, a float or NaN.
RNone == [t |-> "none", n |-> 0]
RText == [t |-> "text", n |-> 0]
RNumStr(n) == [t |-> "numstr", n |-> n]

\* A result row: the check_name and the other fields it carries.
Row(check_name, fields) == [check_name |-> check_name, fields |-> fields]

\* float(x): [exc, val]
ToFloat(x) ==
    CASE x.t = "none" -> [exc |-> "TypeError", val |-> FNone]
      [] x.t = "text" -> [exc |-> "ValueError", val |-> FNone]
      [] x.t = "numstr" -> [exc |-> "", val |-> Float(x.n)]
      [] OTHER -> [exc |-> "", val |-> x]

\* The candidate keys probed with value ahead of check_value.
CandidateKeys_ValueFirst ==
    <<"value", "check_value", "metric_value", "ratio", "count", "row_count">>

CandidateKeys ==
    <<"check_value", "value", "metric_value", "ratio", "count", "row_count">>

\* _extract_value that reports 0.0 for a row without a candidate field.
_extract_value_Zero(row) ==
    LET present == {i \in 1..Len(CandidateKeys) : CandidateKeys[i] \in DOMAIN row.fields}
        first == CHOOSE i \in present : \A j \in present : i <= j
    IN  IF present = {} THEN [exc |-> "", val |-> Float(0)]
        ELSE ToFloat(row.fields[CandidateKeys[first]])

\* ResultParser._extract_value: the first candidate key the row has,
\* converted with float(); None when the row has none of them.
_extract_value(row) ==
    LET present == {i \in 1..Len(CandidateKeys) : CandidateKeys[i] \in DOMAIN row.fields}
        first == CHOOSE i \in present : \A j \in present : i <= j
    IN  IF present = {} THEN [exc |-> "", val |-> FNone]
        ELSE ToFloat(row.fields[CandidateKeys[first]])

\* _get_check_by_name that falls back to the Suite's first Check when no
\* Check has the name.
_get_check_by_name_OrFirst(suite, check_name) ==
    LET named == {i \in 1..Len(suite.checks) : suite.checks[i].name = check_name}
    IN  IF named = {} THEN [found |-> TRUE, at |-> 1]
        ELSE [found |-> TRUE, at |-> CHOOSE i \in named : \A j \in named : i <= j]

\* ResultParser._get_check_by_name: the first Check of the name, or None.
_get_check_by_name(suite, check_name) ==
    LET named == {i \in 1..Len(suite.checks) : suite.checks[i].name = check_name}
    IN  IF named = {} THEN [found |-> FALSE, at |-> 0]
        ELSE [found |-> TRUE, at |-> CHOOSE i \in named : \A j \in named : i <= j]

InvalidValueMessage ==
    [text |-> "Check value is invalid!", value |-> FNone,
     about |-> [kind |-> "none", lower |-> FNone, upper |-> FNone]]

\* ResultParser._build_message
_build_message(check_name, value, threshold, status) ==
    [text |-> IF status = "PASS" THEN "value within" ELSE "value outside",
     value |-> value, about |-> describe(threshold)]

\* The Result parse constructs for a matched row, handed its value.
ResultOf(check, row, value) ==
    LET threshold == IF check.threshold.some THEN check.threshold
                     ELSE Threshold(FNone, FNone, FNone)
        status == IF value = FNone THEN "ERROR"
                  ELSE IF is_within(threshold, value) THEN "PASS" ELSE "FAIL"
    IN  [check_name |-> row.check_name,
         status |-> status,
         message |-> IF value = FNone THEN InvalidValueMessage
                     ELSE _build_message(row.check_name, value, threshold, status),
         value |-> value,
         threshold_lower |-> threshold.lower,
         threshold_upper |-> threshold.upper,
         severity |-> check.severity]

RECURSIVE ParseRows(_, _, _)
\* The loop of parse over the rows that are left: the exception that ends it,
\* or the Results appended to parsed_results.
ParseRows(suite, rows, parsed_results) ==
    IF rows = <<>> THEN [exc |-> "", results |-> parsed_results]
    ELSE LET row == Head(rows)
             check == _get_check_by_name(suite, row.check_name)
             value == _extract_value(row)
         IN  IF ~check.found THEN ParseRows(suite, Tail(rows), parsed_results)
             ELSE IF value.exc # "" THEN [exc |-> value.exc, results |-> <<>>]
             ELSE ParseRows(suite, Tail(rows),
                            Append(parsed_results,
                                   ResultOf(suite.checks[check.at], row, value.val)))

\* ResultParser.parse
parse(suite, rows) == ParseRows(suite, rows, <<>>)

-----------------------------------------------------------------------------
\* Result.model_dump(mode="json") and Result(**flat).

\* JSON values: null, a string, a number.
JNull == [json |-> "null", v |-> FNone]
JString(x) == [json |-> "string", v |-> x]
JNumber(x) == [json |-> "number", v |-> x]

\* An Optional[float] dumped as `value or None` would dump it.
DumpFloat_Falsy(x, nan_as_null) ==
    IF x = FNone \/ x = Float(0) THEN JNull
    ELSE IF x = NaN /\ nan_as_null THEN JNull
    ELSE JNumber(x)

\* An Optional[float] in JSON mode: None is null, a float is a number; what
\* NaN becomes depends on the pydantic version installed.
DumpFloat(x, nan_as_null) ==
    IF x = FNone THEN JNull
    ELSE IF x = NaN /\ nan_as_null THEN JNull
    ELSE JNumber(x)

\* Result.model_dump(mode="json"): enum members are dumped as their values.
model_dump(result, nan_as_null) ==
    [check_name |-> JString(result.check_name),
     status |-> JString(result.status),
     severity |-> JString(result.severity),
     message |-> JString(result.message),
     value |-> DumpFloat(result.value, nan_as_null),
     threshold_lower |-> DumpFloat(result.threshold_lower, nan_as_null),
     threshold_upper |-> DumpFloat(result.threshold_upper, nan_as_null)]

CheckStatusValues == {"PASS", "FAIL", "ERROR"}
SeverityValues == {"INFO", "WARN", "ERROR", "CRITICAL"}

\* Validation of an Optional[float] field.
LoadFloat(j) == IF j.json = "number" THEN j.v ELSE FNone

\* Result(**flat): pydantic validates every field, enum fields by value.
LoadResult(flat) ==
    IF \/ flat.check_name.json # "string"
       \/ flat.status.json # "string" \/ flat.status.v \notin CheckStatusValues
       \/ flat.severity.json # "string" \/ flat.severity.v \notin SeverityValues
       \/ flat.message.json \notin {"string", "null"}
       \/ flat.value.json \notin {"number", "null"}
       \/ flat.threshold_lower.json \notin {"number", "null"}
       \/ flat.threshold_upper.json \notin {"number", "null"}
    THEN [exc |-> "ValidationError", result |-> <<>>]
    ELSE [exc |-> "",
          result |-> <<[check_name |-> flat.check_name.v,
                        status |-> flat.status.v,
                        severity |-> flat.severity.v,
                        message |-> flat.message.v,
                        value |-> LoadFloat(flat.value),
                        threshold_lower |-> LoadFloat(flat.threshold_lower),
                        threshold_upper |-> LoadFloat(flat.threshold_upper)]>>]

-----------------------------------------------------------------------------
\* Rule registries.

\* A rule name as a caller spells it: the name in lower case, and whether
\* the spelling is that one or has upper-case letters in it.
Name(base, low) == [base |-> base, low |-> low]

\* str.lower()
Lower(name) == [name EXCEPT !.low = TRUE]

\* The properties of CoreRulesetRegistry and the class each one instantiates.
CoreProperties ==
    ("not_null" :> "NotNullRule") @@ ("unique" :> "UniqueRule")
      @@ ("row_count" :> "RowCountRule") @@ ("negative_values" :> "NegativeValuesRule")
      @@ ("constant_column" :> "ConstantColumnRule") @@ ("null_ratio" :> "NullRatioRule")

\* The methods of CoreRulesetRegistry that take constructor parameters.
CoreMethods ==
    {"regex_match", "duplicated_rows", "freshness", "referential_integrity",
     "accepted_values", "value_range"}

\* PluginRulesetRegistry._rules after __init__: the RuleTemplateBase
\* subclasses found under ads.plugins.rules, keyed by their lower-cased name.
RegisteredRules == ("greater_than" :> "GreaterThan")

\* What a registry call gives back: an exception, a template instance with
\* its own params dict, a bound method, or a mapping of names to classes.
RegRaised(e) ==
    [exc |-> e, kind |-> "none", cls |-> "", params |-> EmptyMap,
     map |-> <<>>, alias |-> FALSE, touched |-> FALSE]
RegInstance(cls, params) ==
    [exc |-> "", kind |-> "instance", cls |-> cls, params |-> params,
     map |-> <<>>, alias |-> FALSE, touched |-> FALSE]
RegMethod(attribute) ==
    [exc |-> "", kind |-> "bound method", cls |-> attribute, params |-> EmptyMap,
     map |-> <<>>, alias |-> FALSE, touched |-> FALSE]
RegMapping(map, alias) ==
    [exc |-> "", kind |-> "mapping", cls |-> "", params |-> EmptyMap,
     map |-> map, alias |-> alias, touched |-> FALSE]
RegNothing == RegRaised("")

\* self._rules.get(name.lower()): the class, or "" for None.
RuleClass(rules, name) ==
    IF Lower(name).base \in DOMAIN rules THEN rules[Lower(name).base] ELSE ""

\* PluginRulesetRegistry.get, once rule_cls is looked up: a new instance,
\* whose params dict is its own, updated with the call's params.
Instantiate(rule_cls, name, params) ==
    IF rule_cls = "" THEN RegRaised("KeyError")
    ELSE RegInstance(rule_cls, Merge(EmptyMap, params))

\* PluginRulesetRegistry.get
PluginRulesetRegistry_get(rules, name, params) ==
    Instantiate(RuleClass(rules, name), name, params)

\* PluginRulesetRegistry.__getitem__ with an int key, as the operator `in`
\* calls it: get(0) evaluates name.lower() on an int.
GetItemByIndex(rules, index) == RegRaised("AttributeError")

\* `rule_name in self._plugins`: the class defines neither __contains__ nor
\* __iter__, so Python iterates through __getitem__(0), __getitem__(1), ...
\* and anything but an IndexError raised there propagates.
InPlugins(rules, rule_name) == GetItemByIndex(rules, 0)

\* hasattr(self._core, rule_name)
HasCoreAttribute(rule_name) ==
    rule_name.low /\ rule_name.base \in DOMAIN CoreProperties \cup CoreMethods

\* getattr(self._core, rule_name): a property yields a new instance, a
\* method yields itself, bound.
GetCoreAttribute(rule_name) ==
    IF rule_name.base \in DOMAIN CoreProperties
    THEN RegInstance(CoreProperties[rule_name.base], EmptyMap)
    ELSE RegMethod(rule_name.base)

\* RulesetRegistry.get
RulesetRegistry_get(rules, rule_name) ==
    IF HasCoreAttribute(rule_name) THEN GetCoreAttribute(rule_name)
    ELSE IF InPlugins(rules, rule_name).exc # "" THEN InPlugins(rules, rule_name)
    ELSE PluginRulesetRegistry_get(rules, rule_name, EmptyMap)

\* list() returning self._rules itself.
PluginRulesetRegistry_list_Aliased(rules) == RegMapping(rules, TRUE)

\* dict(self._rules): a new dict with the entries of the registry's.
PluginRulesetRegistry_list(rules) == RegMapping(rules, FALSE)

-----------------------------------------------------------------------------
\* Inputs.

RenderMeasures ==
    {<<Lit("COUNT( * )")>>,
     <<Lit("COUNT(DISTINCT"), Var("column_name"), Lit(")")>>,
     <<Lit("COUNTIF("), Var("column_name"), Lit(">"), Var("lower_bound"), Lit(")")>>,
     <<Lit("COUNTIF("), Var("column_name"), Lit("NOT IN ("),
       Join("accepted_values"), Lit("))")>>}

RenderRequired ==
    {<<>>, <<"column_name">>, <<"column_name", "lower_bound">>,
     <<"column_name", "accepted_values">>}

RenderDefaults == {NoneMap, SomeMap(EmptyMap), SomeMap("lower_bound" :> PyInt("5"))}

\* Template classes deriving from RuleTemplateBase: the built-in shapes and
\* the ones whose author declared other names than the body uses.
RenderTemplates ==
    {Template("rule", Body(m), r, d) :
        m \in RenderMeasures, r \in RenderRequired, d \in RenderDefaults}

\* Stands for a key the mapping does not have.
Absent == [t |-> "absent", s |-> ""]

MapOf(identity, column_name, lower_bound, accepted_values) ==
    LET handed == {p \in {<<"column_name", column_name>>, <<"lower_bound", lower_bound>>,
                         <<"accepted_values", accepted_values>>} : p[2] # Absent}
        named == (IF identity THEN {"check_name", "suite_name"} ELSE {})
    IN  [k \in {p[1] : p \in handed} \cup named |->
            IF k = "check_name" THEN PyStr("a")
            ELSE IF k = "suite_name" THEN PyStr("s")
            ELSE (CHOOSE p \in handed : p[1] = k)[2]]

\* The extra_params of a render call: none, or a mapping that names the
\* check and the suite (as the builder's does) or leaves them out.
RenderExtras ==
    {NoneMap} \cup
    {SomeMap(MapOf(id, c, l, a)) :
        id \in BOOLEAN,
        c \in {Absent, PyNone, PyEmptyStr, PyStr("col")},
        l \in {Absent, PyZero, PyFalse, PyInt("5"), PyMarkerStr("ymd")},
        a \in {Absent, PyList(""), PyList("'x', 'y'")}}

CheckNames == {"a", "b"}

SuiteParams == {NoneMap, SomeMap("ymd" :> PyStr("2025-11-02"))}

DataSources ==
    {DataSource("TABLE", SomeText(<<Lit("proj.ds.tbl")>>), NoneText),
     DataSource("QUERY", NoneText,
                SomeText(<<Lit("SELECT * FROM t WHERE ymd = '"), Var("ymd"), Lit("'")>>))}

\* A Check whose fields that its compilation never reads are left unset:
\* nothing is read of a Check without a template, nothing but the template
\* of a Check without params, and row_count has no column placeholder.
Canonical(check) ==
    /\ ~check.rule_template.bound =>
          check.params.some /\ check.column_name = PyNone /\ ~check.description.some
    /\ ~check.params.some => check.column_name = PyNone /\ ~check.description.some
    /\ check.rule_template.name = "row_count" => check.column_name = PyNone

Checks ==
    {check \in
        {Check(n, d, t, c, p) :
            n \in CheckNames,
            d \in {NoneText, SomeText(<<Lit("as of"), Var("ymd")>>)},
            t \in {NoTemplate, RowCountRule, UniqueRule},
            c \in {PyNone, PyStr("col")},
            p \in {NoneMap, SomeMap(EmptyMap)}} : Canonical(check)}

CheckLists == UNION {[1..n -> Checks] : n \in 0..MaxChecks}

Suites ==
    {Suite("s", ds, sp, cs) : ds \in DataSources, sp \in SuiteParams, cs \in CheckLists}

\* Checks whose params, or whose template instance's defaults, carry
\* entries named like the identity fields, next to ordinary entries.
ShadowParams ==
    {EmptyMap,
     "column_name" :> PyStr("other"),
     "check_name" :> PyStr("zz"),
     "suite_name" :> PyStr("zz"),
     "lower_bound" :> PyInt("3"),
     ("column_name" :> PyStr("other")) @@ ("lower_bound" :> PyInt("3"))}

ShadowTemplates ==
    {WithParams(UniqueRule, d) : d \in ShadowParams}
      \cup {ValueRangeRule(PyInt("1"), PyInt("9")),
            WithParams(ValueRangeRule(PyInt("1"), PyInt("9")),
                       ("column_name" :> PyStr("dflt")) @@ ("lower_bound" :> PyInt("1"))
                         @@ ("upper_bound" :> PyInt("9")))}

ShadowChecks ==
    {Check("a", NoneText, t, c, SomeMap(p)) :
        t \in ShadowTemplates, c \in {PyNone, PyStr("col")}, p \in ShadowParams}

ShadowSuites ==
    {Suite("s", DataSource("TABLE", SomeText(<<Lit("proj.ds.tbl")>>), NoneText),
           NoneMap, <<check>>) : check \in ShadowChecks}

\* DataSources with both table and query handed; the field the type does
\* not select is plain text, or refers to a parameter no Suite defines.
BothFieldSources ==
    {DataSource(type, SomeText(table), SomeText(query)) :
        type \in {"TABLE", "QUERY"},
        table \in {<<Lit("proj.ds.tbl")>>, <<Lit("proj.ds."), Var("tbl")>>},
        query \in {<<Lit("SELECT * FROM t")>>,
                   <<Lit("SELECT * FROM t WHERE ymd = '"), Var("ymd"), Lit("'")>>}}

SourceSuites ==
    {Suite("s", ds, sp, cs) :
        ds \in BothFieldSources, sp \in SuiteParams,
        cs \in {<<>>, <<Check("a", NoneText, RowCountRule, PyNone, SomeMap(EmptyMap))>>}}

\* Suites whose Check names end as the base sub-query's name does.
NameSuites ==
    {Suite("s", DataSource("TABLE", SomeText(<<Lit("proj.ds.tbl")>>), NoneText),
           NoneMap, [i \in 1..Len(names) |->
                        Check(names[i], NoneText, RowCountRule, PyNone, SomeMap(EmptyMap))]) :
        names \in {<<"s_base">>, <<"a_base">>, <<"a", "s_base">>, <<"a_base", "a">>}}

\* Suites with a parameter value that itself carries placeholder markers: a
\* check-level value, a suite-level value naming nothing the Suite defines,
\* and a suite-level value naming another suite-level parameter.
MarkerSuites ==
    {Suite("s", DataSource("TABLE", SomeText(<<Lit("proj.ds.tbl")>>), NoneText), NoneMap,
           <<Check("a", NoneText, GreaterThan, PyStr("col"),
                   SomeMap("lower_limit_value" :> PyMarkerStr("zz")))>>)}
      \cup
    {Suite("s", DataSource("QUERY", NoneText,
                           SomeText(<<Lit("SELECT * FROM t WHERE ymd = '"), Var("ymd"),
                                      Lit("'")>>)),
           SomeMap(sp),
           <<Check("a", NoneText, RowCountRule, PyNone, SomeMap(EmptyMap))>>) :
        sp \in {"ymd" :> PyMarkerStr("zz"),
                ("ymd" :> PyMarkerStr("zz")) @@ ("zz" :> PyStr("2025-11-02"))}}

\* Thresholds as callers construct them: Threshold(), the value shorthand,
\* one bound, both bounds.
Thresholds ==
    {Threshold(v, l, u) :
        v \in {FNone, Float(0), Float(5)},
        l \in {FNone, Float(0), Float(3)},
        u \in {FNone, Float(0), Float(10)}}

\* The floats is_within is asked about.
Values == {Float(n) : n \in {-1, 0, 2, 3, 5, 10, 11}} \cup {NaN}

\* The Checks of the Suites handed to the parser.
ParseCheck(name, severity, threshold) ==
    WithThreshold(Check(name, NoneText, RowCountRule, PyNone, SomeMap(EmptyMap)),
                  severity, threshold)

ParseThresholds ==
    {NoThreshold, Threshold(FNone, FNone, FNone), Threshold(Float(5), FNone, FNone),
     Threshold(FNone, Float(3), Float(10))}

\* One Check, two Checks, and two Checks of one name.
ParseSuites ==
    {Suite("s", DataSource("TABLE", SomeText(<<Lit("proj.ds.tbl")>>), NoneText),
           NoneMap, cs) :
        cs \in {<<ParseCheck("a", "CRITICAL", t)>> : t \in ParseThresholds}
             \cup {<<ParseCheck("a", "ERROR", t),
                     ParseCheck("b", "WARN", Threshold(FNone, FNone, Float(10)))>> :
                        t \in ParseThresholds}
             \cup {<<ParseCheck("a", "INFO", Threshold(FNone, Float(3), Float(10))),
                     ParseCheck("a", "WARN", NoThreshold)>>}}

\* The fields a row carries next to check_name.
RowFields ==
    {"value" :> Float(5), "value" :> Float(2), "value" :> Float(11),
     "value" :> Float(0), "value" :> RNone, "value" :> RText,
     "value" :> RNumStr(5), "value" :> NaN,
     EmptyMap,
     ("value" :> Float(11)) @@ ("count" :> Float(5)),
     ("check_value" :> Float(5)) @@ ("value" :> RNone),
     "count" :> Float(3),
     ("value" :> Float(5)) @@ ("violations" :> Float(11)),
     ("ratio" :> Float(2)) @@ ("row_count" :> RText) @@ ("note" :> RNone)}

Rows ==
    {Row("a", f) : f \in RowFields}
      \cup {Row("b", f) : f \in {"value" :> Float(5), "value" :> RNone, EmptyMap}}
      \cup {Row("zz", f) : f \in {"value" :> Float(5), "value" :> RNone}}

RowLists == UNION {[1..n -> Rows] : n \in 0..MaxRows}

\* The names looked up: a built-in property, a built-in method, the plugin
\* and a name nobody registered, each in lower case and with capitals.
RuleNames ==
    {Name(b, low) : b \in {"unique", "value_range", "greater_than", "nope"},
                    low \in BOOLEAN}

\* The keyword params of a PluginRulesetRegistry.get call.
GetParams == {EmptyMap, "lower_limit_value" :> PyInt("5")}

\* The callers of the process-wide registries.
Callers == {1, 2}

NoSuite == Suite("", DataSource("TABLE", NoneText, NoneText), NoneMap, <<>>)

\* The Suites of the runs that share a process, one that compiles and one
\* whose Check has no template, and the rows the engine answers them with.
RunSuites ==
    {Suite("s", DataSource("TABLE", SomeText(<<Lit("proj.ds.tbl")>>), NoneText), NoneMap,
           <<ParseCheck("a", "CRITICAL", Threshold(FNone, Float(3), Float(10)))>>),
     Suite("s", DataSource("TABLE", SomeText(<<Lit("proj.ds.tbl")>>), NoneText), NoneMap,
           <<Check("a", NoneText, NoTemplate, PyNone, SomeMap(EmptyMap))>>)}

RunRows == {<<>>, <<Row("a", "value" :> Float(5))>>}

\* One answer of the BigQuery client to a run: whether the call succeeded,
\* and the rows or the job's messages that came with it.
Response(ok, rows, job_errors) == [ok |-> ok, rows |-> rows, errors |-> job_errors]

\* A run that has not started.
NoRun ==
    [who |-> "", instance |-> 0, suite |-> NoSuite,
     flags |-> [first |-> FALSE, only |-> FALSE], at |-> "ready",
     metadata |-> NoMetadata, log |-> <<>>,
     out |-> [state |-> "none", exc |-> "", metadata |-> NoMetadata, results |-> <<>>]]

-----------------------------------------------------------------------------
\* State.

VARIABLES
    pc,       \* "idle", a position inside Executor.execute, or "done"
    op,       \* the operation the caller invoked
    rin,      \* render: the template instance and the extra_params
    rout,     \* render: what it returned or raised
    suite,    \* build, run_suite: the Suite
    bout,     \* build, run_suite: what SQLBuilder.build returned or raised
    flags,    \* execute, run_suite: the dry-run / validate flags
    client,   \* Executor._client
    meta,     \* Executor.execute: its local metadata dict
    calls,    \* the calls made to the BigQuery client, in order
    parses,   \* the calls made to ResultParser.parse, in order
    ret,      \* execute, run_suite: what the caller got back
    again,    \* build: what a second build() on the same builder returned
    tin,      \* is_within: the Threshold and the value
    tout,     \* is_within: what it returned
    pin,      \* parse: the rows (the Suite is in suite)
    pout,     \* parse: what it returned or raised
    reg,      \* the plugin registry's _rules, and each caller's call on it
    xout,     \* round trip: the dumped Results and the Results built from them
    handed,   \* the caller's copy of the Suite and the template, taken before the call
    runs      \* the runs that share a process: each instance's client, each run's frame

vars ==
    <<pc, op, rin, rout, suite, bout, flags, client, meta, calls, parses, ret, again,
      tin, tout, pin, pout, reg, xout, handed, runs>>

Init ==
    /\ pc = "idle"
    /\ op = "none"
    /\ rin = [self |-> NoTemplate, extra_params |-> NoneMap]
    /\ rout = Return(<<>>)
    /\ suite = NoSuite
    /\ bout = Return(<<>>)
    /\ flags = [first |-> FALSE, only |-> FALSE]
    /\ client = "None"
    /\ meta = NoMetadata
    /\ calls = <<>>
    /\ parses = <<>>
    /\ ret = NoCall
    /\ again = Return(<<>>)
    /\ tin = [self |-> NoThreshold, val |-> FNone]
    /\ tout = FALSE
    /\ pin = <<>>
    /\ pout = [exc |-> "", results |-> <<>>]
    /\ xout = [flat |-> <<>>, back |-> <<>>]
    /\ handed = [suite |-> NoSuite, self |-> NoTemplate]
    /\ runs = [shared |-> FALSE, client |-> [i \in Callers |-> "None"],
               last |-> [i \in Callers |-> NoMetadata],
               run |-> [c \in Callers |-> NoRun]]
    /\ reg = [rules |-> RegisteredRules,
              callers |-> [c \in Callers |->
                  [at |-> "ready", api |-> "", name |-> Name("", TRUE),
                   params |-> EmptyMap, cls |-> "", out |-> RegNothing]]]

-----------------------------------------------------------------------------
\* Operations.

\* A render() that keeps the combined params on the instance.
TemplateAfterRender_Updated(self, extra_params) ==
    [self EXCEPT !.params = SomeMap(Merge(OrEmpty(self.params), OrEmpty(extra_params)))]

\* The template instance once render() has returned or raised: the combined
\* params are a new dict, and nothing is assigned to self.
TemplateAfterRender(self, extra_params) == self

\* A caller renders a template instance.
Render(self, extra_params) ==
    /\ pc = "idle"
    /\ pc' = "done"
    /\ op' = "render"
    /\ rin' = [self |-> TemplateAfterRender(self, extra_params),
               extra_params |-> extra_params]
    /\ rout' = render(self, extra_params)
    /\ handed' = [handed EXCEPT !.self = self]
    /\ UNCHANGED <<suite, bout, flags, client, meta, calls, parses, ret, again,
                 tin, tout, pin, pout, reg, xout, runs>>

\* A build() that uses up the Suite's params as it substitutes them.
SuiteAfterBuild_ParamsConsumed(s) == [s EXCEPT !.params = NoneMap]

\* The builder's Suite once build() has returned: build assigns to locals
\* only, so self._suite and the objects it holds are what they were.
SuiteAfterBuild(s) == s

\* A caller constructs a SQLBuilder for a Suite and compiles it.
Build(s) ==
    /\ pc = "idle"
    /\ pc' = "done"
    /\ op' = "build"
    /\ suite' = SuiteAfterBuild(s)
    /\ bout' = build(s)
    /\ handed' = [handed EXCEPT !.suite = s]
    /\ UNCHANGED <<rin, rout, flags, client, meta, calls, parses, ret, again,
                 tin, tout, pin, pout, reg, xout, runs>>

\* The caller calls build() on the same SQLBuilder a second time.
Rebuild ==
    /\ pc = "done"
    /\ op = "build"
    /\ op' = "rebuild"
    /\ again' = build(suite)
    /\ suite' = SuiteAfterBuild(suite)
    /\ UNCHANGED <<pc, rin, rout, bout, flags, client, meta, calls, parses, ret,
                 tin, tout, pin, pout, reg, xout, handed, runs>>

\* Where Executor.execute goes after its preamble.
AfterPreamble(dry_run_first, dry_run_only) ==
    IF dry_run_only \/ dry_run_first THEN "dry_run" ELSE "query"

\* Executor.execute, called with the keywords of its signature: connect and
\* prepare the base metadata.
ExecuteCall(dry_run_first, dry_run_only) ==
    /\ pc = "idle"
    /\ op' = "execute"
    /\ flags' = [first |-> dry_run_first, only |-> dry_run_only]
    /\ client' = "Client"
    /\ meta' = InitialMetadata(dry_run_only)
    /\ pc' = AfterPreamble(dry_run_first, dry_run_only)
    /\ UNCHANGED <<rin, rout, suite, bout, calls, parses, ret, again,
                 tin, tout, pin, pout, reg, xout, handed, runs>>

\* Executor.execute: the dry run.
DryRun(ok) ==
    /\ pc = "dry_run"
    /\ calls' = Append(calls, [call |-> "dry_run", ok |-> ok])
    /\ LET succeeded == [meta EXCEPT !.job_id = "dry_job", !.bytes_processed = "set",
                                     !.cache_hit = "set", !.status = "DRY_RUN_SUCCESS"]
           failed == [meta EXCEPT !.status = "DRY_RUN_FAILED",
                                  !.errors = <<"dry run error">>]
       IN  IF ~ok
           THEN /\ meta' = failed
                /\ ret' = AfterExecute(op, Returned(<<>>, failed))
                /\ parses' = ParsesAfter(op, Returned(<<>>, failed), parses)
                /\ pc' = "done"
           ELSE /\ meta' = succeeded
                /\ IF flags.only
                   THEN /\ ret' = AfterExecute(op, Returned(<<>>, succeeded))
                        /\ parses' = ParsesAfter(op, Returned(<<>>, succeeded), parses)
                        /\ pc' = "done"
                   ELSE /\ UNCHANGED <<ret, parses>>
                        /\ pc' = "query"
    /\ UNCHANGED <<op, rin, rout, suite, bout, flags, client, again,
                 tin, tout, pin, pout, reg, xout, handed, runs>>

\* Executor.execute: client.query submits the job.
Query(ok) ==
    /\ pc = "query"
    /\ calls' = Append(calls, [call |-> "query", ok |-> ok])
    /\ LET outcome == ExceptHandler(FALSE, "submit error", <<>>, meta)
       IN  IF ok
           THEN /\ pc' = "result"
                /\ UNCHANGED <<ret, parses, meta>>
           ELSE /\ pc' = "done"
                /\ meta' = IF outcome.state = "returned" THEN outcome.metadata ELSE meta
                /\ ret' = AfterExecute(op, outcome)
                /\ parses' = ParsesAfter(op, outcome, parses)
    /\ UNCHANGED <<op, rin, rout, suite, bout, flags, client, again,
                 tin, tout, pin, pout, reg, xout, handed, runs>>

\* Executor.execute: job.result() waits for the rows.
Result(ok, rows, job_errors) ==
    /\ pc = "result"
    /\ calls' = Append(calls, [call |-> "result", ok |-> ok])
    /\ LET succeeded == [meta EXCEPT !.job_id = "job", !.start_time = "set",
                                     !.end_time = "set", !.duration_ms = "set",
                                     !.bytes_processed = "set", !.cache_hit = "set",
                                     !.status = "SUCCESS"]
           outcome == IF ok THEN Returned(rows, succeeded)
                      ELSE ExceptHandler(TRUE, "result error", job_errors, meta)
       IN  /\ meta' = outcome.metadata
           /\ ret' = AfterExecute(op, outcome)
           /\ parses' = ParsesAfter(op, outcome, parses)
    /\ pc' = "done"
    /\ UNCHANGED <<op, rin, rout, suite, bout, flags, client, again,
                 tin, tout, pin, pout, reg, xout, handed, runs>>

\* SentinelRunner.run_suite: compile, then call the executor.
RunSuite(s, validate_first, validate_only) ==
    /\ pc = "idle"
    /\ op' = "run_suite"
    /\ suite' = s
    /\ flags' = [first |-> validate_first, only |-> validate_only]
    /\ LET sql_query == build(s)
       IN  /\ bout' = sql_query
           /\ IF sql_query.exc # ""
              THEN /\ ret' = Raised(sql_query.exc)
                   /\ pc' = "done"
                   /\ UNCHANGED <<client, meta>>
              ELSE IF ~Binds(ExecuteParameters, ExecuteRequired, RunSuiteExecuteKeywords)
              THEN /\ ret' = Raised("TypeError: unexpected keyword argument")
                   /\ pc' = "done"
                   /\ UNCHANGED <<client, meta>>
              ELSE /\ ret' = ret
                   /\ client' = "Client"
                   /\ meta' = InitialMetadata(validate_only)
                   /\ pc' = AfterPreamble(validate_first, validate_only)
    /\ UNCHANGED <<rin, rout, calls, parses, again,
                 tin, tout, pin, pout, reg, xout, handed, runs>>

\* A caller asks a Threshold whether a value is within it.
IsWithin(self, val) ==
    /\ pc = "idle"
    /\ pc' = "done"
    /\ op' = "is_within"
    /\ tin' = [self |-> self, val |-> val]
    /\ tout' = is_within(self, val)
    /\ UNCHANGED <<rin, rout, suite, bout, flags, client, meta, calls, parses, ret,
                 again, pin, pout, reg, xout, handed, runs>>

\* The Suite once parse() has returned or raised: parse reads the Checks
\* and their Thresholds, and builds a default Threshold of its own where a
\* Check has none.
SuiteAfterParse(s, rows) == s

\* A caller hands a Suite and the engine's rows to ResultParser.parse.
Parse(s, rows) ==
    /\ pc = "idle"
    /\ pc' = "done"
    /\ op' = "parse"
    /\ suite' = SuiteAfterParse(s, rows)
    /\ pin' = rows
    /\ pout' = parse(s, rows)
    /\ handed' = [handed EXCEPT !.suite = s]
    /\ UNCHANGED <<rin, rout, bout, flags, client, meta, calls, parses, ret, again,
                 tin, tout, reg, xout, runs>>

\* The variables the registry callers leave alone.
pipelineVars ==
    <<rin, rout, suite, bout, flags, client, meta, calls, parses, ret, again,
      tin, tout, pin, pout, xout, handed, runs>>

\* The registries are in use: no pipeline operation of this behaviour.
InRegistry == pc \in {"idle", "registry"}

\* Caller c's call record replaced.
Calling(c, record) == [reg EXCEPT !.callers[c] = record]

\* Caller c calls RulesetRegistry.get(rule_name).
RegistryGet(c, rule_name) ==
    /\ InRegistry /\ reg.callers[c].at = "ready"
    /\ pc' = "registry" /\ op' = "registry"
    /\ reg' = Calling(c, [at |-> "done", api |-> "get", name |-> rule_name,
                          params |-> EmptyMap, cls |-> "",
                          out |-> RulesetRegistry_get(reg.rules, rule_name)])
    /\ UNCHANGED pipelineVars

\* Caller c calls PluginRulesetRegistry.get(name, **params), or
\* plugins[name]: the class is looked up.
PluginLookup(c, api, name, params) ==
    /\ InRegistry /\ reg.callers[c].at = "ready"
    /\ api = "getitem" => params = EmptyMap
    /\ pc' = "registry" /\ op' = "registry"
    /\ reg' = Calling(c, [at |-> "found", api |-> api, name |-> name,
                          params |-> params, cls |-> RuleClass(reg.rules, name),
                          out |-> RegNothing])
    /\ UNCHANGED pipelineVars

\* PluginRulesetRegistry.get goes on: KeyError, or the instance.
PluginInstantiate(c) ==
    /\ pc = "registry" /\ reg.callers[c].at = "found"
    /\ reg' = Calling(c, [reg.callers[c] EXCEPT
                  !.at = "done",
                  !.out = Instantiate(reg.callers[c].cls, reg.callers[c].name,
                                      reg.callers[c].params)])
    /\ UNCHANGED <<pc, op>>
    /\ UNCHANGED pipelineVars

\* Caller c calls PluginRulesetRegistry.list().
PluginList(c) ==
    /\ InRegistry /\ reg.callers[c].at = "ready"
    /\ pc' = "registry" /\ op' = "registry"
    /\ reg' = Calling(c, [at |-> "done", api |-> "list", name |-> Name("", TRUE),
                          params |-> EmptyMap, cls |-> "",
                          out |-> PluginRulesetRegistry_list(reg.rules)])
    /\ UNCHANGED pipelineVars

\* The mapping a caller has changed: the plugin's entry deleted, an entry
\* of the caller's added.
Changed(map) == [k \in (DOMAIN map \ {"greater_than"}) \cup {"mine"} |->
                    IF k = "mine" THEN "Mine" ELSE map[k]]

\* Caller c changes what its call gave it: the params of the instance, or
\* the mapping.  A mapping that is the registry's own dict changes with it.
Mutate(c) ==
    /\ pc = "registry" /\ reg.callers[c].at = "done"
    /\ reg.callers[c].out.kind \in {"instance", "mapping"}
    /\ ~reg.callers[c].out.touched
    /\ LET out == reg.callers[c].out
           mine == IF out.kind = "instance"
                   THEN [out EXCEPT !.touched = TRUE,
                                    !.params = Merge(out.params,
                                                     "lower_limit_value" :> PyInt("99"))]
                   ELSE [out EXCEPT !.touched = TRUE, !.map = Changed(out.map)]
       IN  reg' = [reg EXCEPT
                      !.callers[c].out = mine,
                      !.rules = IF out.kind = "mapping" /\ out.alias
                                THEN Changed(reg.rules) ELSE reg.rules]
    /\ UNCHANGED <<pc, op>>
    /\ UNCHANGED pipelineVars

\* Caller c is done with what it got and is ready for its next call.
Release(c) ==
    /\ pc = "registry" /\ reg.callers[c].at = "done"
    /\ reg' = Calling(c, [at |-> "ready", api |-> "", name |-> Name("", TRUE),
                          params |-> EmptyMap, cls |-> "", out |-> RegNothing])
    /\ UNCHANGED <<pc, op>>
    /\ UNCHANGED pipelineVars

\* The caller dumps the Results parse returned, as an exporter does, and
\* constructs Results from the dumps.
RoundTrip(nan_as_null) ==
    /\ pc = "done" /\ op = "parse"
    /\ pout.exc = "" /\ pout.results # <<>>
    /\ op' = "round_trip"
    /\ LET flat == [k \in 1..Len(pout.results) |->
                       model_dump(pout.results[k], nan_as_null)]
       IN  xout' = [flat |-> flat,
                    back |-> [k \in 1..Len(flat) |-> LoadResult(flat[k])]]
    /\ UNCHANGED <<pc, rin, rout, suite, bout, flags, client, meta, calls, parses, ret,
                 again, tin, tout, pin, pout, reg, handed, runs>>

\* The variables the runs that share a process leave alone.
singleVars ==
    <<rin, rout, suite, bout, flags, client, meta, calls, parses, ret, again,
      tin, tout, pin, pout, reg, xout, handed>>

\* An execute that keeps one metadata dict on the Executor and updates it
\* call after call.
StartMetadata_Kept(previous, dry_run_only) ==
    IF previous = NoMetadata THEN InitialMetadata(dry_run_only)
    ELSE [previous EXCEPT !.dry_run = dry_run_only, !.status = "UNKNOWN"]

\* The metadata a call of execute starts from, `previous` being the dict the
\* Executor's last call filled: a new dict literal, bound to a local.
StartMetadata(previous, dry_run_only) == InitialMetadata(dry_run_only)

\* The process creates its SentinelRunner instances: one for all runs, or
\* one for each.
Runners(shared) ==
    /\ pc = "idle"
    /\ pc' = "runs" /\ op' = "runs"
    /\ runs' = [runs EXCEPT !.shared = shared]
    /\ UNCHANGED singleVars

\* The Executor run c goes through.
InstanceOf(c) == IF runs.shared THEN 1 ELSE c

\* Run c starts: run_suite on its SentinelRunner, or the stages called one
\* by one on the runner's collaborators.  The Suite is compiled; execute
\* connects and prepares its metadata.  Runs on one instance are successive.
RunStart(c, who, s, validate_first, validate_only) ==
    /\ pc = "runs" /\ runs.run[c].at = "ready"
    /\ runs.shared => \A d \in Callers : runs.run[d].at \in {"ready", "done"}
    /\ LET sql_query == build(s)
           frame == [NoRun EXCEPT !.who = who, !.instance = InstanceOf(c), !.suite = s,
                                  !.flags = [first |-> validate_first,
                                             only |-> validate_only]]
           raised(e) == [frame EXCEPT !.at = "done",
                                      !.out = [state |-> "raised", exc |-> e,
                                               metadata |-> NoMetadata,
                                               results |-> <<>>]]
       IN  IF sql_query.exc # ""
           THEN runs' = [runs EXCEPT !.run[c] = raised(sql_query.exc)]
           ELSE IF who = "run_suite"
                   /\ ~Binds(ExecuteParameters, ExecuteRequired, RunSuiteExecuteKeywords)
           THEN runs' = [runs EXCEPT !.run[c] =
                                        raised("TypeError: unexpected keyword argument")]
           ELSE runs' = [runs EXCEPT
                            !.client[InstanceOf(c)] = "Client",
                            !.run[c] =
                                [frame EXCEPT !.metadata =
                                                  StartMetadata(runs.last[InstanceOf(c)],
                                                                validate_only),
                                              !.at = AfterPreamble(validate_first,
                                                                   validate_only)]]
    /\ UNCHANGED <<pc, op>>
    /\ UNCHANGED singleVars

\* What run c hands back once execute has come to `result`: run_suite
\* unpacks and parses as AfterExecute says; the stages called one by one
\* hand the rows to parse with the Suite.
RunOutcome(run, result) ==
    IF run.who = "run_suite"
    THEN LET after == AfterExecute("run_suite", result)
         IN  [state |-> after.state, exc |-> after.exc, metadata |-> after.metadata,
              results |-> <<>>]
    ELSE IF result.state = "raised"
    THEN [state |-> "raised", exc |-> result.exc, metadata |-> NoMetadata,
          results |-> <<>>]
    ELSE LET parsed == parse(run.suite, result.rows)
         IN  IF parsed.exc # ""
             THEN [state |-> "raised", exc |-> parsed.exc, metadata |-> NoMetadata,
                   results |-> <<>>]
             ELSE [state |-> "returned", exc |-> "", metadata |-> result.metadata,
                   results |-> parsed.results]

\* Run c's execute takes its next step with the client's answer.
RunStep(c, ok, rows, job_errors) ==
    /\ pc = "runs" /\ runs.run[c].at \in {"dry_run", "query", "result"}
    /\ runs.client[runs.run[c].instance] = "Client"
    /\ LET run == runs.run[c]
           metadata == run.metadata
           answer == IF run.at = "result" /\ ok THEN Response(ok, rows, <<>>)
                     ELSE IF run.at = "result" THEN Response(ok, <<>>, job_errors)
                     ELSE Response(ok, <<>>, <<>>)
           heard == [run EXCEPT !.log = Append(run.log, answer)]
           finished(result) ==
               [heard EXCEPT !.at = "done",
                             !.metadata = IF result.state = "returned"
                                          THEN result.metadata ELSE metadata,
                             !.out = RunOutcome(run, result)]
           dry_succeeded == [metadata EXCEPT !.job_id = "dry_job",
                                             !.bytes_processed = "set",
                                             !.cache_hit = "set",
                                             !.status = "DRY_RUN_SUCCESS"]
           dry_failed == [metadata EXCEPT !.status = "DRY_RUN_FAILED",
                                          !.errors = <<"dry run error">>]
           succeeded == [metadata EXCEPT !.job_id = "job", !.start_time = "set",
                                         !.end_time = "set", !.duration_ms = "set",
                                         !.bytes_processed = "set", !.cache_hit = "set",
                                         !.status = "SUCCESS"]
           next ==
             CASE run.at = "dry_run" /\ ~ok -> finished(Returned(<<>>, dry_failed))
               [] run.at = "dry_run" /\ ok /\ run.flags.only ->
                    finished(Returned(<<>>, dry_succeeded))
               [] run.at = "dry_run" /\ ok /\ ~run.flags.only ->
                    [heard EXCEPT !.metadata = dry_succeeded, !.at = "query"]
               [] run.at = "query" /\ ok -> [heard EXCEPT !.at = "result"]
               [] run.at = "query" /\ ~ok ->
                    finished(ExceptHandler(FALSE, "submit error", <<>>, metadata))
               [] run.at = "result" /\ ok -> finished(Returned(rows, succeeded))
               [] OTHER ->
                    finished(ExceptHandler(TRUE, "result error", job_errors, metadata))
       IN  runs' = [runs EXCEPT !.run[c] = next,
                                !.last[run.instance] = next.metadata]
    /\ UNCHANGED <<pc, op>>
    /\ UNCHANGED singleVars

Next ==
    \/ pc = "idle" /\ \E t \in RenderTemplates, e \in RenderExtras : Render(t, e)
    \/ pc = "idle" /\ \E s \in Suites \cup ShadowSuites \cup SourceSuites \cup NameSuites
                                   \cup MarkerSuites : Build(s)
    \/ Rebuild
    \/ pc = "idle" /\ \E f \in BOOLEAN, o \in BOOLEAN : ExecuteCall(f, o)
    \/ pc = "dry_run" /\ \E ok \in BOOLEAN : DryRun(ok)
    \/ pc = "query" /\ \E ok \in BOOLEAN : Query(ok)
    \/ pc = "result" /\ \E ok \in BOOLEAN, rows \in EngineRows, errs \in JobErrors :
                           Result(ok, rows, errs)
    \/ pc = "idle" /\ \E s \in Suites, f \in BOOLEAN, o \in BOOLEAN : RunSuite(s, f, o)
    \/ pc = "idle" /\ \E t \in Thresholds, v \in Values : IsWithin(t, v)
    \/ pc = "idle" /\ \E s \in ParseSuites, rows \in RowLists : Parse(s, rows)
    \/ \E nan_as_null \in BOOLEAN : RoundTrip(nan_as_null)
    \/ \E shared \in BOOLEAN : Runners(shared)
    \/ \E c \in Callers, who \in {"run_suite", "stages"}, s \in RunSuites,
          f \in BOOLEAN, o \in BOOLEAN : RunStart(c, who, s, f, o)
    \/ \E c \in Callers, ok \in BOOLEAN, rows \in RunRows, errs \in JobErrors :
          RunStep(c, ok, rows, errs)
    \/ \E c \in Callers, n \in RuleNames : RegistryGet(c, n)
    \/ \E c \in Callers, api \in {"plugin_get", "getitem"}, n \in RuleNames,
          p \in GetParams : PluginLookup(c, api, n, p)
    \/ \E c \in Callers : PluginInstantiate(c)
    \/ \E c \in Callers : PluginList(c)
    \/ \E c \in Callers : Mutate(c)
    \/ \E c \in Callers : Release(c)

Spec == Init /\ [][Next]_vars

-----------------------------------------------------------------------------
\* Properties.

Finished == pc = "done"
Made(call) == \E i \in 1..Len(calls) : calls[i].call = call
Succeeded(call) == \E i \in 1..Len(calls) : calls[i].call = call /\ calls[i].ok
Failed(call) == \E i \in 1..Len(calls) : calls[i].call = call /\ ~calls[i].ok
\* The tokens of one kind, in the order of the text.
Of(text, kind) == SelectSeq(text, LAMBDA tok : tok.k = kind)
\* The identifiers they carry.
Names(tokens) == [i \in 1..Len(tokens) |-> tokens[i].v]
CheckNamesOf(s) == [i \in 1..Len(s.checks) |-> s.checks[i].name]
Before(text, first, then) ==
    \A i, j \in 1..Len(text) : text[i].k = first /\ text[j].k = then => i < j

C2_DryRunFailureIsValidationFailed ==
    (Finished /\ Failed("dry_run")) =>
        /\ ret.state = "returned"
        /\ ret.metadata.status = "VALIDATION_FAILED"
        /\ ret.metadata.errors = <<"dry run error">>
        /\ ret.rows = <<>>
        /\ ~Made("query")

\* C3: a run in which submitting the query or waiting for its result failed
\* has returned normally, with status FAILED, the error message in the
\* metadata errors and no rows.
C3_ExecutionFailureIsCaptured ==
    (Finished /\ (Failed("query") \/ Failed("result"))) =>
        /\ ret.state = "returned"
        /\ ret.metadata.status = "FAILED"
        /\ \E i \in 1..Len(ret.metadata.errors) :
              ret.metadata.errors[i] \in {"submit error", "result error"}
        /\ ret.rows = <<>>

\* C4: a run with validate_only set whose dry run succeeded has returned
\* status VALIDATION_SUCCESS and no rows, and has not submitted the query.
C4_ValidateOnlyIsValidationSuccess ==
    (Finished /\ flags.only /\ Succeeded("dry_run")) =>
        /\ ret.state = "returned"
        /\ ret.metadata.status = "VALIDATION_SUCCESS"
        /\ ret.rows = <<>>
        /\ ~Made("query")

\* C5: a run whose Suite compiled has made a dry run if and only if
\* validate_first or validate_only is set, the dry run precedes the query,
\* and the query is submitted at most once.
C5_StageOrder ==
    (Finished /\ op \in {"execute", "run_suite"} /\ (op = "run_suite" => bout.exc = "")) =>
        /\ Made("dry_run") <=> (flags.first \/ flags.only)
        /\ \A i, j \in 1..Len(calls) :
              calls[i].call = "dry_run" /\ calls[j].call = "query" => i < j
        /\ Len(Of([i \in 1..Len(calls) |-> [k |-> calls[i].call]], "query")) <= 1

\* C6: the metadata a run returns has its end timestamp and its duration
\* set, on every path.
C6_MetadataFinalized ==
    (Finished /\ ret.state = "returned") =>
        /\ ret.metadata.end_time = "set"
        /\ ret.metadata.duration_ms = "set"

\* The failures of compilation, read off the Suite: a Check without a rule
\* template, a Check whose merged parameters leave a required name absent,
\* null or empty, and a placeholder of the base fragment or of a
\* description that the Suite's params do not define.
MissingTemplate(s) == \E i \in 1..Len(s.checks) : ~s.checks[i].rule_template.bound
MissingParameter(s) ==
    \E i \in 1..Len(s.checks) :
        LET c == s.checks[i]
            merged == Merge(OrEmpty(c.rule_template.params),
                            ("column_name" :> c.column_name) @@ OrEmpty(c.params))
        IN  /\ c.rule_template.bound
            /\ \E n \in 1..Len(c.rule_template.required_params) :
                  Get(merged, c.rule_template.required_params[n]) \in {PyNone, PyEmptyStr}
Undefined(text, s) ==
    \E i \in 1..Len(text) : text[i].k = "var" /\ text[i].v \notin DOMAIN OrEmpty(s.params)
UnresolvedPlaceholder(s) ==
    \/ Undefined(IF s.data_source.type = "TABLE" THEN s.data_source.table.text
                 ELSE s.data_source.query.text, s)
    \/ \E i \in 1..Len(s.checks) : Undefined(s.checks[i].description.text, s)

CompileErrors ==
    {"ValueError", "RuleParameterError", "UndefinedError",
     "TypeError: argument after ** must be a mapping"}

\* C7: run_suite on a Suite whose compilation fails (a missing rule
\* template, a missing parameter, an unresolved placeholder) raises the
\* compilation error to the caller, returns no metadata and no Results, and
\* calls neither the BigQuery client nor the parser.
C7_CompileFailurePropagates ==
    (Finished /\ op = "run_suite"
       /\ (MissingTemplate(suite) \/ MissingParameter(suite) \/ UnresolvedPlaceholder(suite))) =>
        /\ ret.state = "raised"
        /\ ret.exc \in CompileErrors
        /\ ret.metadata = NoMetadata
        /\ ret.rows = <<>>
        /\ calls = <<>>
        /\ parses = <<>>
        /\ client = "None"

C7_Witness ==
    /\ Finished
    /\ op = "run_suite"
    /\ MissingTemplate(suite)
    /\ ~MissingParameter(suite)
    /\ ~UnresolvedPlaceholder(suite)
    /\ Len(suite.checks) = 2
    /\ ret.exc = "ValueError"

\* C8: a run of run_suite over a Suite that compiles ends with a status;
\* the parser has been invoked exactly once, with the run's rows and the
\* Suite, when that status is SUCCESS, and not at all otherwise.
C8_ClassifyOnlyOnSuccess ==
    (Finished /\ op = "run_suite" /\ bout.exc = "") =>
        /\ ret.state = "returned"
        /\ ret.metadata.status = "SUCCESS" =>
              parses = <<[rows |-> ret.rows, suite |-> suite]>>
        /\ ret.metadata.status # "SUCCESS" => parses = <<>>

\* The required names that are absent, null or the empty string in the
\* merged parameters, in the order of required_params.
NullOrEmpty(required_params, params) ==
    SelectSeq(required_params, LAMBDA p : Get(params, p) \in {PyNone, PyEmptyStr})
MergedParams == Merge(OrEmpty(rin.self.params), OrEmpty(rin.extra_params))

\* C9: render raises the required-parameter error exactly when a required
\* name is absent, null or the empty string in the merged parameters (0 and
\* False are values), and the error lists every such name.
C9_MissingParameterExactlyWhenAbsent ==
    (Finished /\ op = "render") =>
        LET missing == NullOrEmpty(rin.self.required_params, MergedParams)
            raised == /\ rout.exc = "RuleParameterError"
                      /\ rout.missing # <<"unresolved Jinja variables">>
        IN  /\ raised <=> missing # <<>>
            /\ raised => rout.missing = missing

\* C10: the text render returns holds no placeholder marker, and render
\* raises the parameter error whenever a placeholder of the template body
\* has no value in the merged parameters.
C10_NoUnresolvedPlaceholder ==
    (Finished /\ op = "render") =>
        /\ rout.exc = "" => ~HasMarkers(rout.text)
        /\ (\E i \in 1..Len(rin.self.sql_template) :
              /\ rin.self.sql_template[i].k \in {"var", "join"}
              /\ rin.self.sql_template[i].v \notin DOMAIN MergedParams)
           => rout.exc = "RuleParameterError"

-----------------------------------------------------------------------------
\* Parameter precedence.

IdentityNames == {"check_name", "suite_name", "column_name"}

Without(map, names) == [k \in DOMAIN map \ names |-> map[k]]

\* The Check with every entry named like an identity field taken out of its
\* params and out of its template instance's defaults.
Unshadowed(check) ==
    [check EXCEPT
        !.params = SomeMap(Without(OrEmpty(check.params), IdentityNames)),
        !.rule_template.params =
            SomeMap(Without(OrEmpty(check.rule_template.params), IdentityNames))]

\* The effective value of every parameter by the stated precedence.
Effective(s, check) ==
    LET defaults == OrEmpty(check.rule_template.params)
        given == OrEmpty(check.params)
    IN  [k \in DOMAIN defaults \cup DOMAIN given \cup IdentityNames |->
            IF k = "check_name" THEN PyStr(check.name)
            ELSE IF k = "suite_name" THEN PyStr(s.name)
            ELSE IF k = "column_name" THEN check.column_name
            ELSE IF k \in DOMAIN given THEN given[k]
            ELSE defaults[k]]

Shadows(check) ==
    \/ DOMAIN OrEmpty(check.params) \cap IdentityNames # {}
    \/ DOMAIN OrEmpty(check.rule_template.params) \cap IdentityNames # {}

\* C11: a Check's fragment is rendered from the identity fields over the
\* Check's params over the template instance's defaults, and an entry of
\* the params or the defaults named check_name, suite_name or column_name
\* does not change what compiling the Check yields.
C11_IdentityFieldsWin ==
    (Finished /\ op = "build") =>
        \A i \in 1..Len(suite.checks) :
            LET check == suite.checks[i]
                got == _build_check_cte(suite, check)
                body == render_jinja_template(check.rule_template.sql_template,
                                              SomeMap(Effective(suite, check)), TRUE)
            IN  (check.rule_template.bound /\ check.params.some) =>
                   /\ got = _build_check_cte(suite, Unshadowed(check))
                   /\ got.exc = "" =>
                         got.text = <<Note("-- Check CTE -"), Lit(check.name)>>
                                      \o CheckDescription(check)
                                      \o <<CteOpen(check.name)>> \o body.text \o <<Close>>

C11_Witness ==
    /\ Finished /\ op = "build" /\ bout.exc = ""
    /\ Len(suite.checks) = 1
    /\ LET check == suite.checks[1]
       IN  /\ check.column_name = PyStr("col")
           /\ "column_name" \in DOMAIN OrEmpty(check.params)
           /\ "column_name" \in DOMAIN OrEmpty(check.rule_template.params)
           /\ "lower_bound" \in DOMAIN OrEmpty(check.params)
           /\ check.rule_template.name = "value_range"

-----------------------------------------------------------------------------
\* Checks without a rule template.

\* The position of the first Check without a rule template.
FirstUnbound(s) ==
    CHOOSE i \in 1..Len(s.checks) :
        /\ ~s.checks[i].rule_template.bound
        /\ \A j \in 1..(i - 1) : s.checks[j].rule_template.bound

\* The base fragment and every Check before position i compile.
CompilesBefore(s, i) ==
    /\ _build_base_cte(s).exc = ""
    /\ \A j \in 1..(i - 1) : _build_check_cte(s, s.checks[j]).exc = ""

\* C12 as stated: build fails with the missing-rule-template error for every
\* Suite that holds a Check without a rule template, whatever the other
\* Checks are, and returns no SQL text.
C12_MissingTemplateWhateverTheOthers ==
    (Finished /\ op = "build" /\ MissingTemplate(suite)) =>
        bout.exc = "ValueError" /\ bout.text = <<>>

\* C12 amended: build fails and returns no SQL text for every Suite that
\* holds a Check without a rule template; the error is the
\* missing-rule-template error exactly when the base fragment and every
\* Check before the first one without a template compile, and otherwise it
\* is the error of the first step that fails.
C12_MissingTemplateFailsBuild ==
    (Finished /\ op = "build" /\ MissingTemplate(suite)) =>
        /\ bout.exc # "" /\ bout.text = <<>>
        /\ bout.exc = "ValueError" <=> CompilesBefore(suite, FirstUnbound(suite))
        /\ ~CompilesBefore(suite, FirstUnbound(suite)) =>
              bout.exc \in CompileErrors \ {"ValueError"}

C12_Witness ==
    /\ Finished /\ op = "build"
    /\ Len(suite.checks) = 2
    /\ suite.checks[1].rule_template.bound
    /\ _build_check_cte(suite, suite.checks[1]).exc = ""
    /\ ~suite.checks[2].rule_template.bound
    /\ bout.exc = "ValueError"

-----------------------------------------------------------------------------
\* Checks that leave params unset.

ParamsUnset(s) ==
    /\ Len(s.checks) >= 1
    /\ \A i \in 1..Len(s.checks) :
          s.checks[i].rule_template.bound /\ ~s.checks[i].params.some

\* The Suite with every unset params mapping replaced by an empty one.
WithEmptyParams(s) ==
    [s EXCEPT !.checks = [i \in 1..Len(s.checks) |->
        IF s.checks[i].params.some THEN s.checks[i]
        ELSE [s.checks[i] EXCEPT !.params = SomeMap(EmptyMap)]]]

\* C13: a Suite whose Checks leave params unset compiles as the Suite with
\* empty params mappings does, and run_suite on it does not raise but
\* returns a run status.
C13_UnsetParamsAreEmpty ==
    (Finished /\ op \in {"build", "run_suite"} /\ ParamsUnset(suite)) =>
        /\ bout = build(WithEmptyParams(suite))
        /\ (op = "run_suite" /\ build(WithEmptyParams(suite)).exc = "") =>
              ret.state = "returned"

-----------------------------------------------------------------------------
\* Compiling twice.

-----------------------------------------------------------------------------
\* The DataSource field the type does not select.

\* The Suite with the field its DataSource type does not select left unset.
OtherFieldUnset(s) ==
    IF s.data_source.type = "TABLE"
    THEN [s EXCEPT !.data_source.query = NoneText]
    ELSE [s EXCEPT !.data_source.table = NoneText]

\* The text of the selected field once the Suite's params are substituted.
SelectedField(s) ==
    render_jinja_template(
        Format(IF s.data_source.type = "TABLE" THEN s.data_source.table
               ELSE s.data_source.query),
        SomeMap(OrEmpty(s.params)), FALSE)

\* C15: what build yields does not depend on the DataSource field the type
\* does not select; the base fragment of a TABLE source selects all columns
\* of data_source.table and that of a QUERY source wraps data_source.query.
C15_OnlyTheSelectedFieldCounts ==
    (Finished /\ op = "build") =>
        /\ bout = build(OtherFieldUnset(suite))
        /\ _build_base_cte(suite).exc = SelectedField(suite).exc
        /\ _build_base_cte(suite).exc = "" =>
              _build_base_cte(suite).text =
                 (IF suite.data_source.type = "TABLE"
                  THEN <<Note("-- Base CTE (Data Source Type > TABLE)"),
                         BaseOpen(suite.name), Lit("SELECT * FROM")>>
                  ELSE <<Note("-- Base CTE (Data Source Type > QUERY)"),
                         BaseOpen(suite.name)>>)
                 \o SelectedField(suite).text \o <<Close>>

C15_Witness ==
    /\ Finished /\ op = "build" /\ bout.exc = ""
    /\ suite.data_source.type = "TABLE"
    /\ suite.data_source.table = SomeText(<<Lit("proj.ds.tbl")>>)
    /\ suite.data_source.query.some
    /\ \E i \in 1..Len(suite.data_source.query.text) :
          suite.data_source.query.text[i] = Var("ymd")
    /\ ~suite.params.some

-----------------------------------------------------------------------------
\* Thresholds.

\* a <= b between two floats as numbers are ordered: no float is below or
\* above NaN.
Le(a, b) == a.t = "float" /\ b.t = "float" /\ a.n <= b.n

\* lower <= v <= upper, a bound of None being no bound.
Contains(lower, upper, v) ==
    /\ lower = FNone \/ Le(lower, v)
    /\ upper = FNone \/ Le(v, upper)

\* C16: is_within(v) is true exactly when (lower is None or lower <= v) and
\* (upper is None or v <= upper), for every float v.
C16_IsWithinIsInclusiveContainment ==
    (Finished /\ op = "is_within") =>
        (tout <=> Contains(tin.self.lower, tin.self.upper, tin.val))

-----------------------------------------------------------------------------
\* Classification.

Parsed == Finished /\ op = "parse" /\ pout.exc = ""

IsMatched(s, row) == \E i \in 1..Len(s.checks) : s.checks[i].name = row.check_name

\* The rows that name a Check of the Suite, in the order of the rows.
MatchedRows(s, rows) == SelectSeq(rows, LAMBDA row : IsMatched(s, row))

\* The first Check of the Suite that the row names.
CheckOf(s, row) ==
    s.checks[CHOOSE i \in 1..Len(s.checks) :
                /\ s.checks[i].name = row.check_name
                /\ \A j \in 1..(i - 1) : s.checks[j].name # row.check_name]

\* The bounds a Check is classified against.
LowerOf(check) == IF check.threshold.some THEN check.threshold.lower ELSE FNone
UpperOf(check) == IF check.threshold.some THEN check.threshold.upper ELSE FNone

\* C17: a Result whose value is a number has status PASS if the value is
\* within the bounds of the Check's Threshold and FAIL otherwise; a Check
\* without a Threshold always passes, and a Threshold whose bounds are one
\* value passes that value only.
C17_PassExactlyWhenWithin ==
    Parsed =>
        \A k \in 1..Len(pout.results) :
            LET result == pout.results[k]
                check == CheckOf(suite, MatchedRows(suite, pin)[k])
            IN  result.value.t = "float" =>
                   /\ result.status \in {"PASS", "FAIL"}
                   /\ result.status = "PASS"
                         <=> Contains(LowerOf(check), UpperOf(check), result.value)
                   /\ ~check.threshold.some => result.status = "PASS"
                   /\ (check.threshold.some
                         /\ check.threshold.lower = check.threshold.upper
                         /\ check.threshold.lower # FNone)
                        => (result.status = "PASS"
                              <=> result.value = check.threshold.lower)

C17_Witness ==
    /\ Parsed
    /\ Len(pout.results) = 2
    /\ suite.checks[1].threshold = Threshold(Float(5), FNone, FNone)
    /\ pout.results[1].check_name = "a" /\ pout.results[1].status = "PASS"
    /\ pout.results[1].value = Float(5)
    /\ pout.results[2].check_name = "a" /\ pout.results[2].status = "FAIL"

\* C18: parse returns one Result per row that names a Check of the Suite,
\* in the order of the rows, and drops the other rows: the output is shorter
\* than the input by the number of rows that name no Check, and such a row
\* never makes parse raise.
C18_OneResultPerMatchedRow ==
    (Finished /\ op = "parse") =>
        LET matched == MatchedRows(suite, pin)
            unmatched == {i \in 1..Len(pin) : ~IsMatched(suite, pin[i])}
        IN  /\ pout.exc = "" =>
                  /\ Len(pout.results) = Len(matched)
                  /\ Len(pin) - Len(pout.results) = Cardinality(unmatched)
                  /\ \A k \in 1..Len(matched) :
                        /\ pout.results[k].check_name = matched[k].check_name
                        /\ pout.results[k].value = _extract_value(matched[k]).val
            /\ pout.exc # "" =>
                  \E k \in 1..Len(matched) : _extract_value(matched[k]).exc # ""

C18_Witness ==
    /\ Parsed
    /\ Len(pin) = 2
    /\ ~IsMatched(suite, pin[1]) /\ pin[1].fields = ("value" :> RNone)
    /\ IsMatched(suite, pin[2])
    /\ Len(pout.results) = 1

\* The matched rows whose measurement float() does not accept.
Uncoercible(row) ==
    \E i \in 1..Len(CandidateKeys) :
        /\ CandidateKeys[i] \in DOMAIN row.fields
        /\ \A j \in 1..(i - 1) : CandidateKeys[j] \notin DOMAIN row.fields
        /\ row.fields[CandidateKeys[i]].t \in {"none", "text"}

\* C19: parse does not raise for any list of rows; a matched row whose
\* measurement cannot be coerced to a number becomes a Result with status
\* ERROR and a null value, and every other matched row is classified.
C19_InvalidValueNeverAborts ==
    (Finished /\ op = "parse") =>
        /\ pout.exc = ""
        /\ Len(pout.results) = Len(MatchedRows(suite, pin))
        /\ \A k \in 1..Len(pout.results) :
              Uncoercible(MatchedRows(suite, pin)[k]) =>
                 pout.results[k].status = "ERROR" /\ pout.results[k].value = FNone

\* The sequence without its i-th element.
RemoveAt(seq, i) == [k \in 1..(Len(seq) - 1) |-> IF k < i THEN seq[k] ELSE seq[k + 1]]

NoCandidate(row) == \A i \in 1..Len(CandidateKeys) : CandidateKeys[i] \notin DOMAIN row.fields

\* C20: a matched row without any candidate measurement field yields one
\* Result with status ERROR, a null value, the invalid-value message and
\* the Check's severity and threshold bounds, whatever the Threshold is, and
\* the Results of the other rows are what they are without that row.
C20_NoMeasurementIsError ==
    Parsed =>
        \A i \in 1..Len(pin) :
            (IsMatched(suite, pin[i]) /\ NoCandidate(pin[i])) =>
                LET k == Len(MatchedRows(suite, SubSeq(pin, 1, i)))
                    check == CheckOf(suite, pin[i])
                IN  /\ pout.results[k] =
                          [check_name |-> pin[i].check_name,
                           status |-> "ERROR",
                           message |-> InvalidValueMessage,
                           value |-> FNone,
                           threshold_lower |-> LowerOf(check),
                           threshold_upper |-> UpperOf(check),
                           severity |-> check.severity]
                    /\ parse(suite, RemoveAt(pin, i)) =
                          [exc |-> "", results |-> RemoveAt(pout.results, k)]

C20_Witness ==
    /\ Parsed
    /\ Len(pin) = 2 /\ Len(pout.results) = 2
    /\ pin[1].check_name = "a" /\ NoCandidate(pin[1])
    /\ suite.checks[1].threshold = Threshold(FNone, Float(3), Float(10))
    /\ pout.results[1].status = "ERROR"
    /\ pout.results[2].status = "PASS"

-----------------------------------------------------------------------------
\* The measurement field.

FixedOrder == <<"check_value", "value", "metric_value", "ratio", "count", "row_count">>

\* The row with nothing but its check_name and the first field of the fixed
\* order that it has.
FirstFieldOnly(row) ==
    LET present == {i \in 1..Len(FixedOrder) : FixedOrder[i] \in DOMAIN row.fields}
        first == CHOOSE i \in present : \A j \in present : i <= j
    IN  IF present = {} THEN Row(row.check_name, EmptyMap)
        ELSE Row(row.check_name, FixedOrder[first] :> row.fields[FixedOrder[first]])

\* C21: what parse yields, Results or exception, is what it yields for the
\* rows stripped of every field but the first one present in the order
\* check_value, value, metric_value, ratio, count, row_count.
C21_FirstPresentFieldWins ==
    (Finished /\ op = "parse") =>
        pout = parse(suite, [i \in 1..Len(pin) |-> FirstFieldOnly(pin[i])])

C21_Witness ==
    /\ Parsed
    /\ Len(pin) = 2 /\ Len(pout.results) = 2
    /\ pin[1].fields = (("check_value" :> Float(5)) @@ ("value" :> RNone))
    /\ pout.results[1].value = Float(5)
    /\ pin[2].fields = (("ratio" :> Float(2)) @@ ("row_count" :> RText) @@ ("note" :> RNone))
    /\ pout.results[2].value = Float(2)

-----------------------------------------------------------------------------
\* Rule lookup.

\* The class of each built-in, by the name of its registry attribute.
BuiltIns ==
    CoreProperties
      @@ ("regex_match" :> "RegexMatchRule") @@ ("duplicated_rows" :> "DuplicateRowsRule")
      @@ ("freshness" :> "FreshnessRule")
      @@ ("referential_integrity" :> "ReferentialIntegrityRule")
      @@ ("accepted_values" :> "AcceptedValuesRule") @@ ("value_range" :> "ValueRangeRule")

Plugins == ("greater_than" :> "GreaterThan")

DoneWith(c, apis) == reg.callers[c].at = "done" /\ reg.callers[c].api \in apis

\* C22: RulesetRegistry.get(name) returns an instance of the built-in
\* template when name is a built-in, with or without constructor
\* parameters, otherwise an instance of the plugin registered under name,
\* and otherwise raises KeyError.
C22_GetResolvesBuiltInThenPlugin ==
    \A c \in Callers :
        (DoneWith(c, {"get"}) /\ reg.callers[c].name.low) =>
            LET name == reg.callers[c].name.base
                out == reg.callers[c].out
            IN  IF name \in DOMAIN BuiltIns
                THEN out.exc = "" /\ out.kind = "instance" /\ out.cls = BuiltIns[name]
                ELSE IF name \in DOMAIN Plugins
                THEN out.exc = "" /\ out.kind = "instance" /\ out.cls = Plugins[name]
                ELSE out.exc = "KeyError"

\* C23: looking a registered template up under a spelling with capitals
\* resolves to the template its lower-case name resolves to, through
\* PluginRulesetRegistry.get and through RulesetRegistry.get.
C23_LookupIgnoresCase ==
    \A c \in Callers :
        LET name == reg.callers[c].name
            out == reg.callers[c].out
        IN  /\ (DoneWith(c, {"plugin_get", "getitem"}) /\ name.base \in DOMAIN Plugins) =>
                  out.exc = "" /\ out.kind = "instance" /\ out.cls = Plugins[name.base]
            /\ (DoneWith(c, {"get"}) /\ name.base \in DOMAIN BuiltIns \cup DOMAIN Plugins) =>
                  /\ out.exc = ""
                  /\ out.cls = (BuiltIns @@ Plugins)[name.base]

-----------------------------------------------------------------------------
\* The registry after construction.

\* C24: whatever the callers do, in whatever interleaving, the registered
\* templates stay what construction found, and every lookup and every list
\* gives what it gives on the registry as constructed.
C24_RegistryIsReadOnly ==
    /\ reg.rules = RegisteredRules
    /\ \A c \in Callers :
          LET call == reg.callers[c]
          IN  /\ call.at = "found" => call.cls = RuleClass(RegisteredRules, call.name)
              /\ (DoneWith(c, {"plugin_get", "getitem"}) /\ ~call.out.touched) =>
                    call.out = PluginRulesetRegistry_get(RegisteredRules, call.name,
                                                         call.params)
              /\ (DoneWith(c, {"plugin_get", "getitem"}) /\ call.out.touched) =>
                    call.out.cls = RuleClass(RegisteredRules, call.name)
              /\ DoneWith(c, {"get"}) =>
                    call.out.cls = RulesetRegistry_get(RegisteredRules, call.name).cls
              /\ (DoneWith(c, {"list"}) /\ ~call.out.touched) =>
                    call.out.map = RegisteredRules

C24_Witness ==
    /\ DoneWith(1, {"list"}) /\ reg.callers[1].out.touched
    /\ "greater_than" \notin DOMAIN reg.callers[1].out.map
    /\ DoneWith(2, {"plugin_get"}) /\ ~reg.callers[2].name.low
    /\ reg.callers[2].out.cls = "GreaterThan"
    /\ reg.callers[2].out.params = ("lower_limit_value" :> PyInt("5"))

-----------------------------------------------------------------------------
\* Round trip of a Result.

\* Equal as an Optional[float] read back is: None is None, a number is the
\* same number.
SameNumber(a, b) == a # NaN => a = b

-----------------------------------------------------------------------------
\* The objects handed in are read, never written.

-----------------------------------------------------------------------------
\* What Executor.execute returns.

FailureStatuses == {"DRY_RUN_FAILED", "FAILED"}

\* C28: when Executor.execute returns, the status is not UNKNOWN, the rows
\* are empty unless the status is SUCCESS, and the errors list is non-empty
\* exactly when the status is DRY_RUN_FAILED or FAILED.
C28_ReturnedMetadataIsConsistent ==
    (Finished /\ op = "execute" /\ ret.state = "returned") =>
        /\ ret.metadata.status # "UNKNOWN"
        /\ ret.metadata.status # "SUCCESS" => ret.rows = <<>>
        /\ ret.metadata.errors # <<>> <=> ret.metadata.status \in FailureStatuses

\* The job was submitted, waiting for it failed, and the job carries no
\* message of its own.
C28_Witness ==
    /\ Finished /\ op = "execute" /\ ret.state = "returned"
    /\ ret.metadata.status = "FAILED"
    /\ ret.metadata.errors = <<"result error">>
    /\ ret.rows = <<>>
    /\ calls[Len(calls)] = [call |-> "result", ok |-> FALSE]

-----------------------------------------------------------------------------
\* Sub-query identifiers.

Distinct(seq) == \A i, j \in 1..Len(seq) : i # j => seq[i] # seq[j]

\* The identifiers the statement defines, in the order of the text.
Identifiers(text) ==
    LET opening == SelectSeq(text, LAMBDA tok : tok.k \in {"base", "cte"})
    IN  [i \in 1..Len(opening) |-> Identifier(opening[i])]

\* C29: in the SQL text build returns for a Suite whose Check names are
\* pairwise distinct, the identifiers of the sub-queries, the base one
\* included, are pairwise distinct.
C29_IdentifiersAreDistinct ==
    (Finished /\ op = "build" /\ bout.exc = "" /\ Distinct(CheckNamesOf(suite))) =>
        Distinct(Identifiers(bout.text))

-----------------------------------------------------------------------------
\* Parameter values that carry placeholder markers.

\* The same characters held as plain text, which no templating pass reads.
Opaque(name) == "{{ " \o name \o " }}"
PlainValue(v) == IF v.t = "tmpl" THEN PyStr(Opaque(v.s)) ELSE v
PlainMap(d) == [d EXCEPT !.map = [k \in DOMAIN d.map |-> PlainValue(d.map[k])]]

\* The Suite with every marker-carrying value made opaque.
Plain(s) ==
    [s EXCEPT !.params = PlainMap(s.params),
              !.checks = [i \in 1..Len(s.checks) |->
                            [s.checks[i] EXCEPT !.params = PlainMap(s.checks[i].params)]]]

MarkerNames == {"ymd", "zz"}

\* The text with the opaque values written out as the values they are.
Verbatim(text) ==
    [i \in 1..Len(text) |->
        IF \E n \in MarkerNames : text[i] = Lit(Opaque(n))
        THEN Var(CHOOSE n \in MarkerNames : text[i] = Lit(Opaque(n)))
        ELSE text[i]]

\* C30: a parameter value that carries placeholder markers is emitted as it
\* is: the build succeeds whenever it succeeds with the value taken as
\* opaque text, and the SQL text is the same, with the value in its place.
C30_ValuesAreEmittedVerbatim ==
    (Finished /\ op = "build") =>
        LET opaque == build(Plain(suite))
        IN  opaque.exc = "" =>
              /\ bout.exc = ""
              /\ bout.text = Verbatim(opaque.text)

-----------------------------------------------------------------------------
\* Runs that share a process.

\* What a run hands back when nothing else runs: the Suite compiled, execute
\* called with the run's flags and answered as the run was, the rows parsed.
RunAlone(run) ==
    LET sql_query == build(run.suite)
        raised(e) == [state |-> "raised", exc |-> e, metadata |-> NoMetadata,
                      results |-> <<>>]
    IN  IF sql_query.exc # "" THEN raised(sql_query.exc)
        ELSE IF run.who = "run_suite"
                /\ ~Binds(ExecuteParameters, ExecuteRequired, RunSuiteExecuteKeywords)
        THEN raised("TypeError: unexpected keyword argument")
        ELSE RunOutcome(run, execute(run.flags.first, run.flags.only, run.log))

=============================================================================
